---- MODULE Spec2Model ----
(***************************************************************************)
(* A model of the notification system's dispatch core:                     *)
(*   - the preference store          (userPreferences, src/unnamed/part_006)*)
(*   - the template manager          (src/dispatcher.js, second half)       *)
(*   - the controller                (src/controllers/                      *)
(*                                    userNotificationController.js)        *)
(*   - renderTemplateByLanguage      (src/notificationTemplates.js)         *)
(*                                                                         *)
(* JavaScript values are represented as follows.  A string the code looks  *)
(* into (a user id / e-mail address) is a sequence of one-character        *)
(* strings; every other string is a TLA+ string.  An object is a function  *)
(* from its own property names to values, so "x in obj" is                 *)
(* "x" \in DOMAIN obj.  null is Null, a missing template is NoTemplate.    *)
(* Time stamps (createdAt, updatedAt, Date.now()) and console output are   *)
(* left out: no modelled branch reads them.                                *)
(***************************************************************************)
EXTENDS Integers, Sequences, FiniteSets, TLC

VARIABLES
    preferencesStore,   \* userPreferences: the module-level store, userId -> record
    templates,          \* templateManager: type -> name -> language -> template
    ret,                \* the last call made and the value it returned
    sends,              \* the channel senders invoked by the last call, in order
    batch,              \* the sendBatchNotifications call in progress, if any
    query               \* inputs and outputs of the pure resolvers

vars == <<preferencesStore, templates, ret, sends, batch, query>>

Null == "<null>"

(***************************************************************************)
(* Strings the code inspects: sequences of characters.                     *)
(***************************************************************************)
includes(s, c) == \E i \in 1..Len(s) : s[i] = c

isSpace(c) == c = " "

RECURSIVE trimStart(_)
trimStart(s) ==
    IF s # <<>> /\ isSpace(Head(s)) THEN trimStart(Tail(s)) ELSE s

RECURSIVE trimEnd(_)
trimEnd(s) ==
    IF s # <<>> /\ isSpace(s[Len(s)]) THEN trimEnd(SubSeq(s, 1, Len(s) - 1)) ELSE s

trim(s) == trimEnd(trimStart(s))

\* /^[^\s@]+@[^\s@]+\.[^\s@]+$/.test(s)
simpleEmailRegex(s) ==
    \E i \in 1..Len(s) : \E j \in 1..Len(s) :
        /\ s[i] = "@"
        /\ s[j] = "."
        /\ 1 < i
        /\ i + 1 < j
        /\ j < Len(s)
        /\ \A k \in 1..Len(s) : k # i => (s[k] # "@" /\ ~isSpace(s[k]))

\* String.prototype.toLowerCase on the language codes and names in use
toLowerCase(s) ==
    CASE s = "EN" -> "en"
      [] s = "FR" -> "fr"
      [] s = "DE" -> "de"
      [] s = "Promo" -> "promo"
      [] OTHER -> s

(***************************************************************************)
(* Objects: spread / Object.assign                                         *)
(***************************************************************************)
spread(a, b) ==
    [f \in (DOMAIN a) \cup (DOMAIN b) |-> IF f \in DOMAIN b THEN b[f] ELSE a[f]]

has(obj, f) == f \in DOMAIN obj

(***************************************************************************)
(* userPreferences                                                         *)
(***************************************************************************)
isValidUserId(userId) ==
    IF userId = <<>> THEN FALSE
    ELSE IF includes(userId, "@") THEN simpleEmailRegex(userId)
    ELSE Len(trim(userId)) >= 3

createDefaultPreferences(overrides) ==
    spread([emailEnabled |-> TRUE, smsEnabled |-> FALSE,
            isDeleted |-> FALSE, preferredLanguage |-> "en"], overrides)

EmptyObject == [f \in {} |-> Null]

exists(store, userId) == userId \in DOMAIN store

\* getUserPreferences that hands out a deleted record as it is stored
getUserPreferences_keepsDeleted(store, userId) ==
    IF ~isValidUserId(userId) THEN [value |-> Null, found |-> FALSE, store |-> store]
    ELSE
      LET store1 == IF ~exists(store, userId)
                    THEN [u \in (DOMAIN store) \cup {userId} |->
                            IF u = userId THEN createDefaultPreferences(EmptyObject)
                            ELSE store[u]]
                    ELSE store
      IN [value |-> store1[userId], found |-> TRUE, store |-> store1]

\* getUserPreferences that returns the defaults of a new recipient and
\* stores nothing
getUserPreferences_forgetsNew(store, userId) ==
    IF ~isValidUserId(userId) THEN [value |-> Null, found |-> FALSE, store |-> store]
    ELSE IF ~exists(store, userId)
    THEN [value |-> createDefaultPreferences(EmptyObject), found |-> TRUE, store |-> store]
    ELSE
      LET isUserDeleted == store[userId].isDeleted = TRUE
          store1 == IF isUserDeleted
                    THEN [u \in DOMAIN store |->
                            IF u = userId THEN createDefaultPreferences(EmptyObject)
                            ELSE store[u]]
                    ELSE store
      IN [value |-> store1[userId], found |-> TRUE, store |-> store1]

\* getUserPreferences that stores fresh defaults on every call
getUserPreferences_resetsRecord(store, userId) ==
    IF ~isValidUserId(userId) THEN [value |-> Null, found |-> FALSE, store |-> store]
    ELSE
      LET store1 == [u \in (DOMAIN store) \cup {userId} |->
                        IF u = userId THEN createDefaultPreferences(EmptyObject)
                        ELSE store[u]]
      IN [value |-> store1[userId], found |-> TRUE, store |-> store1]

\* getUserPreferences that replaces a deleted record in the store and
\* returns the record it found there, shown as live
getUserPreferences_returnsStale(store, userId) ==
    IF ~isValidUserId(userId) THEN [value |-> Null, found |-> FALSE, store |-> store]
    ELSE
      LET userExists    == exists(store, userId)
          isUserDeleted == userExists /\ store[userId].isDeleted = TRUE
          store1 == IF ~userExists \/ isUserDeleted
                    THEN [u \in (DOMAIN store) \cup {userId} |->
                            IF u = userId THEN createDefaultPreferences(EmptyObject)
                            ELSE store[u]]
                    ELSE store
      IN IF isUserDeleted
         THEN [value |-> [store[userId] EXCEPT !.isDeleted = FALSE],
               found |-> TRUE, store |-> store1]
         ELSE [value |-> store1[userId], found |-> TRUE, store |-> store1]

\* getUserPreferences(userId) with includeDeleted = false: the value returned
\* and the store it leaves.  value = Null for an invalid id.
getUserPreferences(store, userId) ==
    IF ~isValidUserId(userId) THEN [value |-> Null, found |-> FALSE, store |-> store]
    ELSE
      LET userExists    == exists(store, userId)
          isUserDeleted == userExists /\ store[userId].isDeleted = TRUE
          store1 == IF ~userExists \/ isUserDeleted
                    THEN [u \in (DOMAIN store) \cup {userId} |->
                            IF u = userId THEN createDefaultPreferences(EmptyObject)
                            ELSE store[u]]
                    ELSE store
      IN IF store1[userId].isDeleted = TRUE
         THEN [value |-> Null, found |-> FALSE, store |-> store1]
         ELSE [value |-> store1[userId], found |-> TRUE, store |-> store1]

\* updateUserPreferences(userId, updates): null for an invalid id, else the
\* merged record, which replaces the stored one
updateUserPreferences(store, userId, updates) ==
    IF ~isValidUserId(userId) THEN [ok |-> FALSE, store |-> store]
    ELSE
      LET got == getUserPreferences(store, userId)
          updatedPrefs == spread(got.value, updates)
      IN [ok |-> TRUE,
          store |-> [u \in DOMAIN got.store |->
                        IF u = userId THEN updatedPrefs ELSE got.store[u]]]

\* removeUserPreferences(userId)
removeUserPreferences(store, userId) ==
    IF ~isValidUserId(userId) \/ ~exists(store, userId)
    THEN [ok |-> FALSE, store |-> store]
    ELSE [ok |-> TRUE, store |-> [u \in (DOMAIN store) \ {userId} |-> store[u]]]

(***************************************************************************)
(* templateManager                                                         *)
(***************************************************************************)
NoTemplate == [none |-> TRUE]

isTemplate(t) == t # NoTemplate

\* A template string is a sequence of tokens: literal text, tagged with the
\* variant it belongs to, and {{key}} placeholders.
Lit(part, name, lang) == [lit |-> <<part, name, lang>>]

Ph(key) == [ph |-> key]

\* the content of a template variant: an object {subject, body} for email,
\* a string for sms (wrapped as [text |-> string] to tell it from an object)
emailContent(name, lang) ==
    [subject |-> <<Lit("subject", name, lang), Ph("serviceName")>>,
     body    |-> <<Lit("body", name, lang), Ph("userName")>>]

smsContent(name, lang) == [text |-> <<Lit("sms", name, lang), Ph("userName")>>]

content(type, name, lang) ==
    IF type = "email" THEN emailContent(name, lang) ELSE smsContent(name, lang)

multilingualTemplates ==
    [type \in {"email", "sms"} |->
        [name \in {"welcome", "otp"} |->
            [lang \in {"en", "es", "fr"} |-> content(type, name, lang)]]]

hasVariant(tmpl, type, name, lang) ==
    /\ type \in DOMAIN tmpl
    /\ name \in DOMAIN tmpl[type]
    /\ lang \in DOMAIN tmpl[type][name]

\* getTemplate(type, templateName, language, fallbackLanguage = 'en')
\* the arguments are non-empty strings here, so the three input checks pass
getTemplateFb(tmpl, type0, templateName0, language0, fallbackLanguage0) ==
    LET type             == toLowerCase(type0)
        templateName     == toLowerCase(templateName0)
        language         == toLowerCase(language0)
        fallbackLanguage == toLowerCase(fallbackLanguage0)
    IN IF type \notin DOMAIN tmpl THEN NoTemplate
       ELSE IF templateName \notin DOMAIN tmpl[type] THEN NoTemplate
       ELSE IF language \in DOMAIN tmpl[type][templateName]
            THEN tmpl[type][templateName][language]
       ELSE IF fallbackLanguage \in DOMAIN tmpl[type][templateName]
            THEN tmpl[type][templateName][fallbackLanguage]
       ELSE NoTemplate

getTemplate(tmpl, type, templateName, language) ==
    getTemplateFb(tmpl, type, templateName, language, "en")

\* typeof template === 'object' (an sms template is a string)
isObject(template) == ~has(template, "text")

\* addTemplate(type, templateName, language, template); the arguments are
\* non-empty strings, template is an object, a string or null (NoTemplate)
addTemplate(tmpl, type0, templateName0, language0, template) ==
    IF type0 = "" \/ templateName0 = "" \/ language0 = "" \/ template = NoTemplate
    THEN [ok |-> FALSE, store |-> tmpl]
    ELSE
      LET type         == toLowerCase(type0)
          templateName == toLowerCase(templateName0)
          language     == toLowerCase(language0)
          t1 == IF type \in DOMAIN tmpl THEN tmpl
                ELSE [t \in (DOMAIN tmpl) \cup {type} |->
                        IF t = type THEN EmptyObject ELSE tmpl[t]]
          t2 == IF templateName \in DOMAIN t1[type] THEN t1
                ELSE [t1 EXCEPT ![type] =
                        [n \in (DOMAIN t1[type]) \cup {templateName} |->
                            IF n = templateName THEN EmptyObject ELSE t1[type][n]]]
          t3 == [t2 EXCEPT ![type][templateName] =
                    [l \in (DOMAIN t2[type][templateName]) \cup {language} |->
                        IF l = language THEN template ELSE t2[type][templateName][l]]]
      IN IF Len(language) < 2 THEN [ok |-> FALSE, store |-> tmpl]
         ELSE IF type = "email" /\ (~isObject(template)
                                    \/ ~has(template, "subject")
                                    \/ ~has(template, "body"))
         THEN [ok |-> FALSE, store |-> t2]
         ELSE [ok |-> TRUE, store |-> t3]

(***************************************************************************)
(* prepareNotificationTemplates.getTemplateWithFallback (controller)       *)
(***************************************************************************)
fallbackAnswer(fallbackTemplate) ==
    IF isTemplate(fallbackTemplate)
    THEN [template |-> fallbackTemplate, language |-> "en", fallbackUsed |-> TRUE]
    ELSE [template |-> NoTemplate, language |-> Null, fallbackUsed |-> FALSE]

firstAnswer(tmpl, template, type, notifType, lang) ==
    IF isTemplate(template)
    THEN [template |-> template, language |-> lang, fallbackUsed |-> FALSE]
    ELSE IF lang # "en"
    THEN fallbackAnswer(getTemplate(tmpl, type, notifType, "en"))
    ELSE [template |-> NoTemplate, language |-> Null, fallbackUsed |-> FALSE]

getTemplateWithFallback(tmpl, type, notifType, lang) ==
    firstAnswer(tmpl, getTemplate(tmpl, type, notifType, lang), type, notifType, lang)

(***************************************************************************)
(* notificationTemplates: renderTemplate, renderTemplateByLanguage         *)
(***************************************************************************)
\* String(value), '' for null
valueText(value) == IF value = Null THEN [val |-> ""] ELSE [val |-> value]

\* renderTemplate(template, data): every {{key}} whose key is an own
\* property of data is replaced by its value; the others stay
renderTemplate(template, data) ==
    [i \in 1..Len(template) |->
        IF has(template[i], "ph") /\ template[i].ph \in DOMAIN data
        THEN valueText(data[template[i].ph])
        ELSE template[i]]

\* Object.keys(obj) of an object whose keys are language codes: insertion
\* order, which for the template literals is the order of LanguageOrder
LanguageOrder == <<"en", "es", "fr", "de">>

keys(obj) == SelectSeq(LanguageOrder, LAMBDA l : l \in DOMAIN obj)

\* lines 186-200: an object is rendered property by property, a string as a whole
renderVariant(template, data) ==
    IF isObject(template)
    THEN [k \in DOMAIN template |-> renderTemplate(template[k], data)]
    ELSE [text |-> renderTemplate(template.text, data)]

EmptyString == [text |-> <<>>]

EmptyEmail == [subject |-> <<>>, body |-> <<>>]

\* lines 139-173: the variant chosen among those of one template
chooseVariant(variants, language, fallbackLanguage) ==
    IF language \in DOMAIN variants THEN variants[language]
    ELSE IF language # fallbackLanguage /\ fallbackLanguage \in DOMAIN variants
    THEN variants[fallbackLanguage]
    ELSE IF Len(keys(variants)) > 0 THEN variants[keys(variants)[1]]
    ELSE NoTemplate

\* templates[channel]?.welcome?.[language] is an object
welcomeIsObject(tmpl, channel, language) ==
    /\ channel \in DOMAIN tmpl
    /\ "welcome" \in DOMAIN tmpl[channel]
    /\ language \in DOMAIN tmpl[channel]["welcome"]
    /\ isObject(tmpl[channel]["welcome"][language])

\* what is returned for a missing template: null, or '' / an empty object
\* with returnEmptyOnMissing.  A returned value is [kind |-> "return",
\* value |-> v], a returned null is [kind |-> "null"].
missing(returnEmptyOnMissing, asObject, emptyObject) ==
    IF ~returnEmptyOnMissing THEN [kind |-> "null"]
    ELSE IF asObject THEN [kind |-> "return", value |-> emptyObject]
    ELSE [kind |-> "return", value |-> EmptyString]

renderChosen(template, channel, data, returnEmptyOnMissing) ==
    IF ~isTemplate(template)
    THEN missing(returnEmptyOnMissing, channel = "email", EmptyEmail)
    ELSE [kind |-> "return", value |-> renderVariant(template, data)]

\* renderTemplateByLanguage(templates, channel, templateName, language, data,
\* {fallbackLanguage, returnEmptyOnMissing}); data is an object here
renderTemplateByLanguage(tmpl, channel, templateName, language, data, fallbackLanguage, returnEmptyOnMissing) ==
    IF channel = "" \/ templateName = "" \/ language = ""
    THEN [kind |-> "throw"]
    ELSE IF channel \notin DOMAIN tmpl
    THEN missing(returnEmptyOnMissing, welcomeIsObject(tmpl, "email", "en"), EmptyObject)
    ELSE IF templateName \notin DOMAIN tmpl[channel]
    THEN missing(returnEmptyOnMissing, welcomeIsObject(tmpl, channel, language),
                 EmptyObject)
    ELSE renderChosen(chooseVariant(tmpl[channel][templateName], language,
                                    fallbackLanguage),
                      channel, data, returnEmptyOnMissing)

(***************************************************************************)
(* The channel senders (mockEmailService.sendEmailMock,                    *)
(* mockSmsService.sendSmsMock) are external collaborators: a call either   *)
(* throws or returns a value.  The controller calls them without await     *)
(* and reads .dispatched, .messageId and .error of what comes back.        *)
(*   - Dispatched:  an object reporting a completed send                   *)
(*   - Failed:      an object reporting a failed send, with its error      *)
(*   - Pending:     a promise (what an asynchronous sender returns); it    *)
(*                  has none of the three properties                       *)
(*   - Rejected:    a promise that rejects with the sender's error; like   *)
(*                  every promise it has none of the three properties      *)
(*   - Throws:      the call throws; this is also what the repository's    *)
(*                  own wiring does, since notifications/emails.js and     *)
(*                  notifications/sms.js export no sendEmailMock /         *)
(*                  sendSmsMock and calling undefined is a TypeError       *)
(***************************************************************************)
Dispatched == [kind |-> "return", value |-> [dispatched |-> TRUE, messageId |-> "msg-1"]]
Failed     == [kind |-> "return", value |-> [dispatched |-> FALSE, error |-> "Send failed"]]
Pending    == [kind |-> "return", value |-> [promise |-> "pending"]]
Rejected   == [kind |-> "return", value |-> [promise |-> "rejected"]]
Throws     == [kind |-> "throw"]

SenderOutcomes == {Dispatched, Failed, Pending, Rejected, Throws}

\* the value a sender returned is a promise: the send goes on after the call
isPromise(outcome) == outcome.kind = "return" /\ has(outcome.value, "promise")

\* x.f || null
orNull(obj, f) == IF has(obj, f) THEN obj[f] ELSE Null

\* !!x.f for a boolean or missing property
truthy(obj, f) == has(obj, f) /\ obj[f] = TRUE

(***************************************************************************)
(* userNotificationController.sendNotificationByPreference                 *)
(***************************************************************************)
\* const { forceSend = false, ... } = options
option(options, f) == IF has(options, f) THEN options[f] ELSE FALSE

\* userPrefs.phone as a condition: present and not the empty string
hasPhone(userPrefs) == has(userPrefs, "phone") /\ userPrefs.phone # ""

\* userPrefs.language || 'en'
preferredLanguageOf(userPrefs) ==
    IF has(userPrefs, "language") /\ userPrefs.language # ""
    THEN userPrefs.language ELSE "en"

\* baseChannels with the email preference ignored
baseChannels_ignoresEmailFlag(userPrefs) ==
    <<"email">> \o (IF userPrefs.smsEnabled THEN <<"sms">> ELSE <<>>)

\* lines 706-722: the channels the stored preferences enable
baseChannels(userPrefs) ==
    (IF userPrefs.emailEnabled THEN <<"email">> ELSE <<>>)
    \o (IF userPrefs.smsEnabled THEN <<"sms">> ELSE <<>>)

\* forcedChannels that adds sms whether or not there is a phone number
forcedChannels_alwaysSms(userPrefs) == <<"email", "sms">>

\* lines 740-746: the channels used when forceSend overrides empty preferences
forcedChannels(userPrefs) ==
    <<"email">> \o (IF hasPhone(userPrefs) THEN <<"sms">> ELSE <<>>)

inSeq(seq, x) == \E i \in 1..Len(seq) : seq[i] = x

\* lines 775-776, 780-781: getTemplate(..., lang) || (lang !== 'en' ? getTemplate(..., 'en') : null)
templateExists(tmpl, type, notificationType, lang) ==
    \/ isTemplate(getTemplate(tmpl, type, notificationType, lang))
    \/ (lang # "en" /\ isTemplate(getTemplate(tmpl, type, notificationType, "en")))

\* lines 734-853: the planning part.  go = TRUE with the channels to send
\* on, or go = FALSE with the object returned early.
planChannels(userPrefs, tmpl, notificationType, options) ==
    LET forceSend          == option(options, "forceSend")
        combinedOnly       == option(options, "combinedOnly")
        requireAllChannels == option(options, "requireAllChannels")
        combinedMode       == combinedOnly \/ requireAllChannels
        base               == baseChannels(userPrefs)
        channels1          == IF Len(base) = 0 THEN forcedChannels(userPrefs) ELSE base
        hasEmailChannel    == inSeq(channels1, "email")
        hasSmsChannel      == inSeq(channels1, "sms")
        hasBothChannels    == hasEmailChannel /\ hasSmsChannel
        preferredLanguage  == preferredLanguageOf(userPrefs)
        emailTemplateExists == templateExists(tmpl, "email", notificationType, preferredLanguage)
        smsTemplateExists   == templateExists(tmpl, "sms", notificationType, preferredLanguage)
        checked            == hasBothChannels \/ requireAllChannels
        channels2 ==
            IF checked /\ combinedOnly /\ ~(emailTemplateExists /\ smsTemplateExists)
            THEN (IF hasEmailChannel /\ emailTemplateExists THEN <<"email">> ELSE <<>>)
                 \o (IF hasSmsChannel /\ smsTemplateExists THEN <<"sms">> ELSE <<>>)
            ELSE channels1
        finalHasBothChannels == inSeq(channels2, "email") /\ inSeq(channels2, "sms")
    IN
    IF Len(base) = 0 /\ ~forceSend
    THEN [go |-> FALSE,
          result |-> [success |-> FALSE,
                      error |-> "No notification channels enabled for this notification type",
                      channels |-> <<>>,
                      preferencesRespected |-> TRUE]]
    ELSE IF ~(combinedMode /\ ~forceSend)
    THEN [go |-> TRUE, channels |-> channels1]
    ELSE IF checked /\ requireAllChannels /\ (~emailTemplateExists \/ ~smsTemplateExists)
    THEN [go |-> FALSE,
          result |-> [success |-> FALSE,
                      error |-> "Templates not available for all required channels",
                      requestedCombined |-> TRUE,
                      emailTemplateExists |-> emailTemplateExists,
                      smsTemplateExists |-> smsTemplateExists,
                      channels |-> channels1]]
    ELSE IF ~finalHasBothChannels /\ requireAllChannels
    THEN [go |-> FALSE,
          result |-> [success |-> FALSE,
                      error |-> "Not all required notification channels are available",
                      requestedCombined |-> TRUE,
                      channels |-> channels2,
                      availableChannels |-> channels2]]
    ELSE IF ~finalHasBothChannels /\ Len(channels2) = 0
    THEN [go |-> FALSE,
          result |-> [success |-> FALSE,
                      error |-> "No viable channels available for notification",
                      requestedCombined |-> TRUE,
                      channels |-> <<>>]]
    ELSE [go |-> TRUE, channels |-> channels2]

\* lines 902-926 / 994-1017 and their catch blocks: the sender is called
\* with the template found and its return value becomes the ChannelResult
senderResult(outcome, usedFallbackLanguage, preferredLanguage) ==
    IF outcome.kind = "throw"
    THEN [success |-> FALSE, error |-> "Internal error: sender threw"]
    ELSE [success |-> truthy(outcome.value, "dispatched"),
          messageId |-> orNull(outcome.value, "messageId"),
          error |-> orNull(outcome.value, "error"),
          languageFallbackUsed |-> usedFallbackLanguage,
          requestedLanguage |-> preferredLanguage,
          actualLanguage |-> IF usedFallbackLanguage THEN "en" ELSE preferredLanguage]

\* the address check of a channel: lines 887 (email) and 978-979 (sms)
addressValid(channel, email, userPrefs) ==
    IF channel = "email"
    THEN email # <<>> /\ includes(email, "@")
    ELSE hasPhone(userPrefs) /\ Len(userPrefs.phone) >= 7

addressError(channel) ==
    IF channel = "email" THEN "Invalid email format" ELSE "Invalid phone number format"

\* lines 858-946 (email) and 949-1037 (sms): one iteration of the channel
\* loop.  sent tells whether the sender was invoked.
processChannel(channel, userPrefs, tmpl, email, notificationType, outcome) ==
    LET preferredLanguage == preferredLanguageOf(userPrefs)
        first    == getTemplate(tmpl, channel, notificationType, preferredLanguage)
        retry    == ~isTemplate(first) /\ preferredLanguage # "en"
        template == IF retry THEN getTemplate(tmpl, channel, notificationType, "en")
                    ELSE first
        usedFallbackLanguage == retry
    IN IF ~isTemplate(template)
       THEN [sent |-> FALSE, template |-> NoTemplate,
             result |-> [success |-> FALSE, error |-> "Template not found",
                         attemptedLanguages |-> <<preferredLanguage, "en">>]]
       ELSE IF ~addressValid(channel, email, userPrefs)
       THEN [sent |-> FALSE, template |-> template,
             result |-> [success |-> FALSE, error |-> addressError(channel)]]
       ELSE [sent |-> TRUE, template |-> template,
             result |-> senderResult(outcome, usedFallbackLanguage, preferredLanguage)]

\* anySuccess with every() in place of some()
anySuccess_every(results) == \A c \in DOMAIN results : results[c].success

\* line 1061: Object.values(results.results).some(result => result.success)
anySuccess(results) == \E c \in DOMAIN results : results[c].success

\* lines 1065-1073: the combined-delivery fields, added in combined mode
withCombinedInfo(r, options) ==
    IF ~(option(options, "combinedOnly") \/ option(options, "requireAllChannels"))
    THEN r
    ELSE LET hasBothChannels  == inSeq(r.channels, "email") /\ inSeq(r.channels, "sms")
             combinedDelivery == hasBothChannels /\ r.results["email"].success
                                                 /\ r.results["sms"].success
         IN spread(r, [requestedCombined   |-> TRUE,
                       requiredAllChannels |-> option(options, "requireAllChannels"),
                       combinedDelivery    |-> combinedDelivery,
                       partialDelivery     |-> ~combinedDelivery /\ r.success])

\* lines 1084-1086
withPreferencesOverridden(r, options) ==
    IF option(options, "forceSend") THEN spread(r, [preferencesOverridden |-> TRUE])
    ELSE r

\* lines 1089-1097
withLanguageFallback(r, userPrefs) ==
    IF \E c \in DOMAIN r.results : truthy(r.results[c], "languageFallbackUsed")
    THEN spread(r, [languageFallbackUsed |-> TRUE,
                    requestedLanguage |-> preferredLanguageOf(userPrefs),
                    fallbackLanguage |-> "en"])
    ELSE r

\* lines 1040-1100: the result built from what the channel loop produced
buildResult(channels, runs, userPrefs, options) ==
    withLanguageFallback(
        withPreferencesOverridden(
            withCombinedInfo(
                [success  |-> anySuccess([c \in DOMAIN runs |-> runs[c].result]),
                 channels |-> channels,
                 results  |-> [c \in DOMAIN runs |-> runs[c].result]],
                options),
            options),
        userPrefs)

sentOf(channels, runs) == SelectSeq(channels, LAMBDA c : runs[c].sent)

loopResult(channels, runs, userPrefs, options) ==
    [result |-> buildResult(channels, runs, userPrefs, options),
     sends  |-> sentOf(channels, runs)]

\* runChannels that leaves the loop at the first channel that failed
runChannels_stopsAtFailure(channels, userPrefs, tmpl, email, notificationType, options, outcomes) ==
    LET run(c) == processChannel(c, userPrefs, tmpl, email, notificationType, outcomes[c])
        kept   == IF Len(channels) = 2 /\ ~run(channels[1]).result.success
                  THEN SubSeq(channels, 1, 1) ELSE channels
    IN [result |-> buildResult(channels, [c \in {kept[i] : i \in 1..Len(kept)} |-> run(c)],
                               userPrefs, options),
        sends  |-> sentOf(kept, [c \in {kept[i] : i \in 1..Len(kept)} |-> run(c)])]

\* lines 855-1100: the channel loop and the result it builds
runChannels(channels, userPrefs, tmpl, email, notificationType, options, outcomes) ==
    loopResult(channels,
               [c \in {channels[i] : i \in 1..Len(channels)} |->
                   processChannel(c, userPrefs, tmpl, email, notificationType, outcomes[c])],
               userPrefs, options)

\* lines 727-1100: what is done with the preferences record found
dispatchPlanned(plan, userPrefs, tmpl, email, notificationType, options, outcomes) ==
    IF ~plan.go THEN [result |-> plan.result, sends |-> <<>>]
    ELSE runChannels(plan.channels, userPrefs, tmpl, email, notificationType,
                     options, outcomes)

\* lines 694-1100 once the two argument checks have passed: what is done
\* with what getUserPreferences returned
dispatchWithPrefs(got, tmpl, email, notificationType, options, outcomes) ==
    IF ~got.found
    THEN [result |-> [success |-> FALSE, error |-> "User preferences not found",
                      channels |-> <<>>],
          sends |-> <<>>]
    ELSE dispatchPlanned(planChannels(got.value, tmpl, notificationType, options),
                         got.value, tmpl, email, notificationType, options, outcomes)

withStore(out, got) ==
    [result |-> out.result, sends |-> out.sends, store |-> got.store, read |-> TRUE]

afterRead(got, tmpl, email, notificationType, options, outcomes) ==
    withStore(dispatchWithPrefs(got, tmpl, email, notificationType, options, outcomes),
              got)

\* sendNotificationByPreference(email, notificationType, data, options):
\* the object the promise resolves to, the senders invoked, the store left
sendNotificationByPreference(store, tmpl, email, notificationType, options, outcomes) ==
    IF email = <<>>
    THEN [result |-> [success |-> FALSE, error |-> "Email address is required",
                      channels |-> <<>>],
          sends |-> <<>>, store |-> store, read |-> FALSE]
    ELSE IF notificationType = ""
    THEN [result |-> [success |-> FALSE, error |-> "Notification type is required",
                      channels |-> <<>>],
          sends |-> <<>>, store |-> store, read |-> FALSE]
    ELSE afterRead(getUserPreferences(store, email), tmpl, email, notificationType,
                   options, outcomes)

\* a sender that is not called produces nothing: its entry is fixed
unusedFixed(outcomes, sent) ==
    \A c \in {"email", "sms"} : inSeq(sent, c) \/ outcomes[c] = Throws

(***************************************************************************)
(* userNotificationController.sendBatchNotifications                       *)
(***************************************************************************)
\* const { failFast = false, parallelSend = true, validateTemplatesFirst = true, ... }
batchOption(options, f) ==
    IF has(options, f) THEN options[f]
    ELSE f \in {"parallelSend", "validateTemplatesFirst"}

\* lines 1157-1173: the options handed on to sendNotificationByPreference
notificationOptionsOf(options) ==
    spread(IF batchOption(options, "forceSend")
           THEN [forceSend |-> TRUE] ELSE EmptyObject,
           IF batchOption(options, "combinedOnly")
              \/ batchOption(options, "requireAllChannels")
           THEN [combinedOnly |-> batchOption(options, "combinedOnly"),
                 requireAllChannels |-> batchOption(options, "requireAllChannels")]
           ELSE EmptyObject)

NoCounts == [success |-> 0, skipped |-> 0, failed |-> 0]

\* the object returned before any recipient is looked at
rejected(error, failed, results, extra) ==
    spread([success |-> FALSE, error |-> error, processedCount |-> 0,
            statusCounts |-> [NoCounts EXCEPT !.failed = failed],
            results |-> results],
           extra)

\* emails.map(email => ({ email, status: 'failed', success: false, error, channels: [] }))
allFailed(emails, error) ==
    [i \in 1..Len(emails) |->
        [email |-> emails[i], status |-> "failed", success |-> FALSE,
         error |-> error, channels |-> <<>>]]

\* preValidate without the check of the English email template
preValidate_noEmailCheck(emails, emailTemplate, smsTemplate, options) ==
    IF ~isTemplate(smsTemplate) /\ batchOption(options, "requireAllChannels")
    THEN [go |-> FALSE,
          result |-> rejected("SMS template not found (required by requireAllChannels option)",
                        Len(emails),
                        allFailed(emails, "SMS template required but not available"),
                        [combinedModeRequested |-> TRUE, requireAllChannels |-> TRUE,
                         missingTemplates |-> <<"sms">>])]
    ELSE [go |-> TRUE]

\* lines 1176-1285: the template pre-validation.  The notification type in
\* the messages is left out.
preValidate(emails, emailTemplate, smsTemplate, options) ==
    IF ~isTemplate(emailTemplate)
    THEN [go |-> FALSE,
          result |-> rejected("Email template not found (English fallback missing)",
                        Len(emails),
                        allFailed(emails,
                            "Email template not found (English fallback missing)"),
                        EmptyObject)]
    ELSE IF ~isTemplate(smsTemplate) /\ batchOption(options, "requireAllChannels")
    THEN [go |-> FALSE,
          result |-> rejected("SMS template not found (required by requireAllChannels option)",
                        Len(emails),
                        allFailed(emails, "SMS template required but not available"),
                        [combinedModeRequested |-> TRUE, requireAllChannels |-> TRUE,
                         missingTemplates |-> <<"sms">>])]
    ELSE [go |-> TRUE]

\* startBatch without the check of the notification type
startBatch_noTypeCheck(tmpl, emails, notificationType, options) ==
    IF Len(emails) = 0
    THEN [go |-> FALSE, phase |-> "input",
          result |-> rejected("An array of email addresses is required", 0, <<>>,
                              EmptyObject)]
    ELSE IF batchOption(options, "validateTemplatesFirst")
    THEN spread(preValidate(emails, getTemplate(tmpl, "email", notificationType, "en"),
                            getTemplate(tmpl, "sms", notificationType, "en"), options),
                [phase |-> "preflight"])
    ELSE [go |-> TRUE, phase |-> "none"]

\* lines 1122-1297: what sendBatchNotifications does before its first recipient
startBatch(tmpl, emails, notificationType, options) ==
    IF Len(emails) = 0
    THEN [go |-> FALSE, phase |-> "input",
          result |-> rejected("An array of email addresses is required", 0, <<>>,
                              EmptyObject)]
    ELSE IF notificationType = ""
    THEN [go |-> FALSE, phase |-> "input",
          result |-> rejected("Notification type is required", 0, <<>>, EmptyObject)]
    ELSE IF batchOption(options, "validateTemplatesFirst")
    THEN spread(preValidate(emails, getTemplate(tmpl, "email", notificationType, "en"),
                            getTemplate(tmpl, "sms", notificationType, "en"), options),
                [phase |-> "preflight"])
    ELSE [go |-> TRUE, phase |-> "none"]

\* lines 1306 / 1390: !email || typeof email !== 'string' || !email.includes('@')
batchEmailValid(email) == email # <<>> /\ includes(email, "@")

\* email || 'invalid-email'
emailOrInvalid(email) == IF email = <<>> THEN <<"invalid-email">> ELSE email

\* lines 1309-1315 / 1394-1400: the entry of an address that fails the check
invalidEntry(email) ==
    [email |-> emailOrInvalid(email), status |-> "failed", success |-> FALSE,
     error |-> "Invalid email address format", channels |-> <<>>]

\* classify that counts a dispatch whose sends all failed as skipped
classify_skipsSendErrors(result, forceSend) ==
    IF result.success THEN "success"
    ELSE IF ~has(result, "error") THEN "skipped"
    ELSE IF result.error = "No notification channels enabled for this notification type"
    THEN (IF forceSend THEN "failed" ELSE "skipped")
    ELSE IF result.error = "User preferences not found" THEN "skipped"
    ELSE "failed"

\* classify that counts a recipient with no enabled channel as failed
classify_optOutFails(result, forceSend) ==
    IF result.success THEN "success"
    ELSE IF ~has(result, "error") THEN "failed"
    ELSE IF result.error = "User preferences not found" THEN "skipped"
    ELSE "failed"

\* lines 1328-1360 / 1422-1454: the status of a dispatch result
classify(result, forceSend) ==
    IF result.success THEN "success"
    ELSE IF ~has(result, "error") THEN "failed"
    ELSE IF result.error = "No notification channels enabled for this notification type"
    THEN (IF forceSend THEN "failed" ELSE "skipped")
    ELSE IF result.error = "User preferences not found" THEN "skipped"
    ELSE "failed"

\* { email, status, preferencesOverridden: result.preferencesOverridden || false, ...result }
userResult(email, status, result) ==
    spread([email |-> email, status |-> status,
            preferencesOverridden |-> truthy(result, "preferencesOverridden")],
           result)

classified(email, forceSend, r) ==
    [entry |-> userResult(email, classify(r.result, forceSend), r.result),
     sends |-> r.sends, store |-> r.store, read |-> r.read]

\* one recipient of the batch: lines 1303-1380 (parallel) and 1387-1492
\* (sequential) up to the push of its result
processRecipient(store, tmpl, email, notificationType, options, outcomes) ==
    IF ~batchEmailValid(email)
    THEN [entry |-> invalidEntry(email),
          sends |-> <<>>, store |-> store, read |-> FALSE]
    ELSE classified(email, batchOption(options, "forceSend"),
                    sendNotificationByPreference(store, tmpl, email, notificationType,
                        notificationOptionsOf(options), outcomes))

\* stopsBatch that also stops after a skipped recipient
stopsBatch_onAnyNonSuccess(options, status) ==
    /\ ~batchOption(options, "parallelSend")
    /\ batchOption(options, "failFast")
    /\ status # "success"

\* lines 1404-1407, 1467-1470: the sequential loop breaks after a failed recipient
stopsBatch(options, status) ==
    /\ ~batchOption(options, "parallelSend")
    /\ batchOption(options, "failFast")
    /\ status = "failed"

\* counted that loses the increment of a skipped recipient
counted_skippedLost(statusCounts, status) ==
    IF status = "skipped" THEN statusCounts
    ELSE [statusCounts EXCEPT ![status] = @ + 1]

\* statusCounts.<status>++
counted(statusCounts, status) == [statusCounts EXCEPT ![status] = @ + 1]

\* the call in progress after one more recipient
advance(b, entry) ==
    [b EXCEPT !.results = Append(@, entry),
              !.statusCounts = counted(@, entry.status),
              !.i = @ + 1,
              !.pc = IF stopsBatch(b.options, entry.status) THEN "break" ELSE "loop"]

\* the call in progress after one more call, or none, of getUserPreferences
looked(b, read) == [b EXCEPT !.lookups = @ + (IF read THEN 1 ELSE 0)]

countWhere(results, f) ==
    Cardinality({i \in 1..Len(results) : truthy(results[i], f)})

\* lines 1506-1581: the object returned after the recipients
batchResult(b) ==
    [success |-> b.statusCounts.success > 0,
     processedCount |-> b.statusCounts.success + b.statusCounts.skipped
                        + b.statusCounts.failed,
     statusCounts |-> b.statusCounts,
     forceSendEnabled |-> batchOption(b.options, "forceSend"),
     languageFallbackCount |-> countWhere(b.results, "languageFallbackUsed"),
     languageFallbackUsed |-> countWhere(b.results, "languageFallbackUsed") > 0,
     combinedMode |-> batchOption(b.options, "combinedOnly")
                      \/ batchOption(b.options, "requireAllChannels"),
     requireAllChannels |-> batchOption(b.options, "requireAllChannels"),
     combinedNotificationCount |->
         IF batchOption(b.options, "combinedOnly")
            \/ batchOption(b.options, "requireAllChannels")
         THEN countWhere(b.results, "combinedDelivery") ELSE 0,
     partialDeliveryCount |->
         IF batchOption(b.options, "combinedOnly")
            \/ batchOption(b.options, "requireAllChannels")
         THEN countWhere(b.results, "partialDelivery") ELSE 0,
     results |-> b.results]

(***************************************************************************)
(* sendBatchNotifications with parallelSend: emails.map starts one async   *)
(* callback per recipient.  A callback runs until its first await and      *)
(* each later stretch between two awaits runs without interruption, so a   *)
(* recipient's task takes three steps:                                     *)
(*   start     lines 1303-1318 and 675-695: the address check, then        *)
(*             sendNotificationByPreference up to its await of             *)
(*             getUserPreferences (the call itself is made here);          *)
(*   dispatch  lines 697-1100: planning, the channel loop, return;         *)
(*   classify  lines 1325-1368: the status, statusCounts, the entry.       *)
(* emails.map runs every start in input order before anything else; the    *)
(* order in which the waiting tasks go on is left open.  Promise.all       *)
(* gathers the entries in input order.                                     *)
(* A task keeps a log of its events for the ordering properties.           *)
(***************************************************************************)
event(name, channel) == [event |-> name, channel |-> channel]

\* the sender of the channel is called; the send has ended when the call
\* returns unless what it returned is a promise
eventsOf(channel, outcomes) ==
    IF isPromise(outcomes[channel]) THEN <<event("start", channel)>>
    ELSE <<event("start", channel), event("end", channel)>>

\* the events of the channel loop, for the senders it invoked in order
sendEvents(sent, outcomes) ==
    IF Len(sent) = 0 THEN <<>>
    ELSE IF Len(sent) = 1 THEN eventsOf(sent[1], outcomes)
    ELSE eventsOf(sent[1], outcomes) \o eventsOf(sent[2], outcomes)

\* a task that has made its call of getUserPreferences and awaits the value
fetched(st, got) ==
    [store |-> got.store, statusCounts |-> st.statusCounts,
     lookups |-> st.lookups + 1,
     tasks |-> Append(st.tasks, [pc |-> "awaitPrefs", got |-> got,
                                 log |-> <<event("fetched", "")>>])]

\* the start of one callback
startTask(st, email) ==
    IF ~batchEmailValid(email)
    THEN [store |-> st.store, statusCounts |-> counted(st.statusCounts, "failed"),
          lookups |-> st.lookups,
          tasks |-> Append(st.tasks, [pc |-> "done", entry |-> invalidEntry(email),
                                      log |-> <<>>])]
    ELSE fetched(st, getUserPreferences(st.store, email))

\* emails.map(async (email) => ...): the starts of all callbacks, in order
RECURSIVE startTasks(_, _, _)
startTasks(st, emails, i) ==
    IF i > Len(emails) THEN st
    ELSE startTasks(startTask(st, emails[i]), emails, i + 1)

\* the task after its dispatch returned r
dispatched(task, outcomes, r) ==
    [pc |-> "awaitDispatch", result |-> r.result,
     log |-> task.log \o <<event("planned", "")>> \o sendEvents(r.sends, outcomes)]

\* the call in progress after task i was classified
settled(b, i, status, result) ==
    [b EXCEPT !.tasks[i] = [pc |-> "done",
                            entry |-> userResult(b.emails[i], status, result),
                            log |-> b.tasks[i].log],
              !.statusCounts = counted(@, status)]

\* gathered that drops the entries after the first failed one under failFast
gathered_stopsAtFailed(b) ==
    LET failedAt == {i \in 1..Len(b.tasks) : b.tasks[i].entry.status = "failed"}
        last == IF batchOption(b.options, "failFast") /\ failedAt # {}
                THEN CHOOSE i \in failedAt : \A j \in failedAt : i <= j
                ELSE Len(b.tasks)
    IN [i \in 1..last |-> b.tasks[i].entry]

\* lines 1383-1384: results.push(...await Promise.all(notificationPromises))
gathered(b) == [i \in 1..Len(b.tasks) |-> b.tasks[i].entry]

(***************************************************************************)
(* Spec: single-recipient dispatch against a changing preference store     *)
(* and template store.                                                     *)
(***************************************************************************)
EmailA   == <<"a", "@", "b", ".", "c">>    \* a well-formed address
EmailO   == <<"o", "@", "b", ".", "c">>    \* another well-formed address
EmailN   == <<"n", "@", "b", ".", "c">>    \* a well-formed address with no record
UserId   == <<"u", "s", "r">>              \* a valid user id that is no address
BadEmail == <<"a", "@", "b">>              \* has '@', rejected by the store's id check
Empty    == <<>>                           \* the empty string

Emails == {EmailA, UserId, BadEmail, Empty}

NotificationTypes == {"welcome", "promo", ""}

Options == [forceSend : BOOLEAN, combinedOnly : BOOLEAN, requireAllChannels : BOOLEAN]

Updates ==
    {[emailEnabled |-> FALSE], [smsEnabled |-> TRUE],
     [phone |-> "5551234"],
     [preferredLanguage |-> "fr"], [preferredLanguage |-> "fr", language |-> "fr"],
     [isDeleted |-> TRUE]}

AddedTemplates == {<<"email", "Promo", "EN">>}

\* the store as loaded from the preferences file: one user with a default record
LoadedStore == [u \in {UserId} |-> createDefaultPreferences(EmptyObject)]

NoCall == [op |-> "none"]

Idle == [pc |-> "idle"]

Init ==
    /\ preferencesStore = LoadedStore
    /\ templates = multilingualTemplates
    /\ ret = NoCall
    /\ sends = <<>>
    /\ batch = Idle
    /\ query = NoCall

UpdateUserPreferences ==
    /\ ret = NoCall
    /\ \E updates \in Updates :
          preferencesStore' = updateUserPreferences(preferencesStore, EmailA, updates).store
    /\ UNCHANGED <<templates, ret, sends, batch, query>>

AddTemplateFrom(added) ==
    /\ \E a \in added :
          templates' = addTemplate(templates, a[1], a[2], a[3],
                           content(a[1], toLowerCase(a[2]), toLowerCase(a[3]))).store
    /\ UNCHANGED <<preferencesStore, ret, sends, batch, query>>

AddTemplate ==
    /\ ret = NoCall
    /\ AddTemplateFrom(AddedTemplates)

\* the effect of one call of sendNotificationByPreference that came out as r
Called(email, notificationType, options, outcomes, r) ==
    /\ unusedFixed(outcomes, r.sends)
    /\ preferencesStore' = r.store
    /\ ret' = [op |-> "sendNotificationByPreference",
               email |-> email, notificationType |-> notificationType,
               options |-> options, outcomes |-> outcomes,
               read |-> r.read, prior |-> preferencesStore,
               value |-> r.result]
    /\ sends' = r.sends

SendNotificationByPreference ==
    /\ ret = NoCall
    /\ batch = Idle
    /\ \E email \in Emails, notificationType \in NotificationTypes, options \in Options,
          outcomes \in [{"email", "sms"} -> SenderOutcomes] :
          Called(email, notificationType, options, outcomes,
                 sendNotificationByPreference(preferencesStore, templates, email,
                                              notificationType, options, outcomes))
    /\ UNCHANGED <<templates, batch, query>>

\* two calls in a row with the same arguments
sendTwice(store, tmpl, email, notificationType, options, outcomes) ==
    LET r1 == sendNotificationByPreference(store, tmpl, email, notificationType,
                                           options, outcomes)
        r2 == sendNotificationByPreference(r1.store, tmpl, email, notificationType,
                                           options, outcomes)
    IN [first |-> r1.result, between |-> r1.store, second |-> r2.result,
        store |-> r2.store, sends |-> r2.sends]

CalledTwice(email, notificationType, options, outcomes, r) ==
    /\ preferencesStore' = r.store
    /\ ret' = [op |-> "sendNotificationByPreference twice",
               email |-> email, notificationType |-> notificationType,
               options |-> options, outcomes |-> outcomes,
               prior |-> preferencesStore, between |-> r.between,
               first |-> r.first, second |-> r.second]
    /\ sends' = r.sends

\* sendNotificationByPreference is called, and called again with the same
\* arguments when it has returned
SendNotificationByPreferenceTwice ==
    /\ ret = NoCall
    /\ batch = Idle
    /\ \E email \in Emails, notificationType \in NotificationTypes, options \in Options,
          outcomes \in {[c \in {"email", "sms"} |-> o] : o \in {Dispatched, Throws}} :
          CalledTwice(email, notificationType, options, outcomes,
                      sendTwice(preferencesStore, templates, email, notificationType,
                                options, outcomes))
    /\ UNCHANGED <<templates, batch, query>>

\* the caller takes the value returned; the next call can be made
Return ==
    /\ ret # NoCall
    /\ ret' = NoCall
    /\ sends' = <<>>
    /\ UNCHANGED <<preferencesStore, templates, batch, query>>

Next ==
    \/ UpdateUserPreferences
    \/ SendNotificationByPreferenceTwice
    \/ AddTemplate
    \/ SendNotificationByPreference
    \/ Return

Spec == Init /\ [][Next]_vars

(***************************************************************************)
(* SpecResolve: the three template resolvers, asked for every channel,     *)
(* name and language, against template stores that addTemplate builds.     *)
(***************************************************************************)
ResolveAdded ==
    {<<type, "promo", lang>> : type \in {"email", "sms"}, lang \in {"en", "es", "fr"}}

ResolveNames == {"promo", "welcome"}

ResolveLanguages == {"en", "es", "fr", "de"}

\* the record whose language the dispatch path reads
ReaderOf(lang) ==
    spread(createDefaultPreferences(EmptyObject), [language |-> lang, phone |-> "5551234"])

\* the data handed to the renderer
RenderData == [userName |-> "Ann", serviceName |-> Null]

ResolveAddTemplate ==
    /\ query = NoCall
    /\ AddTemplateFrom(ResolveAdded)

GetTemplateWithFallback ==
    /\ query = NoCall
    /\ \E type \in {"email", "sms"}, name \in ResolveNames, lang \in ResolveLanguages :
          query' = [op |-> "getTemplateWithFallback",
                    channel |-> type, name |-> name, language |-> lang,
                    found |-> isTemplate(getTemplateWithFallback(templates, type, name,
                                                                 lang).template),
                    value |-> getTemplateWithFallback(templates, type, name, lang)]
    /\ UNCHANGED <<preferencesStore, templates, ret, sends, batch>>

\* the template the channel loop of sendNotificationByPreference settles on
DispatchResolve ==
    /\ query = NoCall
    /\ \E type \in {"email", "sms"}, name \in ResolveNames, lang \in ResolveLanguages :
          query' = [op |-> "dispatch",
                    channel |-> type, name |-> name, language |-> lang,
                    found |-> isTemplate(processChannel(type, ReaderOf(lang), templates,
                                             EmailA, name, Dispatched).template),
                    value |-> processChannel(type, ReaderOf(lang), templates, EmailA,
                                             name, Dispatched)]
    /\ UNCHANGED <<preferencesStore, templates, ret, sends, batch>>

\* a templates object as its caller writes it: one template, "promo", on
\* both channels, with the language variants of langs in the order of
\* LanguageOrder
templatesObject(langs) ==
    [type \in {"email", "sms"} |->
        [name \in {"promo"} |-> [lang \in langs |-> content(type, name, lang)]]]

RenderedLanguageSets == SUBSET {"en", "es", "fr"}

Rendered(langs, type, name, lang, fallbackLanguage, r) ==
    query' = [op |-> "renderTemplateByLanguage", languages |-> langs,
              channel |-> type, name |-> name, language |-> lang,
              fallbackLanguage |-> fallbackLanguage,
              found |-> r.kind = "return",
              value |-> r]

\* renderTemplateByLanguage is handed its templates object by the caller
RenderTemplateByLanguage ==
    /\ query = NoCall
    /\ \E langs \in RenderedLanguageSets, type \in {"email", "sms"},
          name \in ResolveNames, lang \in ResolveLanguages,
          fallbackLanguage \in {"en", "es"} :
          Rendered(langs, type, name, lang, fallbackLanguage,
                   renderTemplateByLanguage(templatesObject(langs), type, name, lang,
                                            RenderData, fallbackLanguage, FALSE))
    /\ UNCHANGED <<preferencesStore, templates, ret, sends, batch>>

ResolveReturn ==
    /\ query # NoCall
    /\ query' = NoCall
    /\ UNCHANGED <<preferencesStore, templates, ret, sends, batch>>

NextResolve ==
    \/ ResolveAddTemplate
    \/ GetTemplateWithFallback
    \/ DispatchResolve
    \/ RenderTemplateByLanguage
    \/ ResolveReturn

SpecResolve == Init /\ [][NextResolve]_vars

(***************************************************************************)
(* SpecBatch: sendBatchNotifications over recipient lists, one step per    *)
(* recipient, and single calls of sendNotificationByPreference, against a  *)
(* store with an opted-in user and two opted-out users.                    *)
(***************************************************************************)
MaxBatch == 4

OptOut == [emailEnabled |-> FALSE]

\* EmailA keeps the defaults; EmailO and UserId have opted out of everything
BatchStore ==
    updateUserPreferences(
        updateUserPreferences(
            updateUserPreferences(LoadedStore, UserId, OptOut).store,
            EmailO, OptOut).store,
        EmailA, EmptyObject).store

Recipients == {EmailA, EmailO, UserId, BadEmail, Empty}

BatchInputs == UNION {[1..n -> Recipients] : n \in 0..MaxBatch}

\* "welcome" has templates on both channels, "promo" an English email
\* template only, "news" none
BatchTemplates ==
    addTemplate(multilingualTemplates, "email", "promo", "en",
                content("email", "promo", "en")).store

BatchTypes == {"welcome", "promo", "news", ""}

\* the sequential loop with and without failFast, forceSend and the
\* pre-validation, and the default (parallel) mode with the
\* combined-delivery options; the parallel mode proper is the subject of
\* SpecParallel
BatchOptions ==
    [failFast : BOOLEAN, parallelSend : {FALSE}, forceSend : BOOLEAN]
    \cup {[parallelSend |-> FALSE, validateTemplatesFirst |-> FALSE],
          [parallelSend |-> FALSE, validateTemplatesFirst |-> FALSE, failFast |-> TRUE]}
    \cup {[requireAllChannels |-> TRUE], [combinedOnly |-> TRUE],
          [requireAllChannels |-> TRUE, validateTemplatesFirst |-> FALSE],
          [requireAllChannels |-> TRUE, failFast |-> TRUE, parallelSend |-> FALSE]}

BatchSenderOutcomes == {Dispatched, Throws}

InitBatch ==
    /\ preferencesStore = BatchStore
    /\ templates = BatchTemplates
    /\ ret = NoCall
    /\ sends = <<>>
    /\ batch = Idle
    /\ query = NoCall

Started(emails, notificationType, options, start) ==
    IF start.go
    THEN /\ batch' = [pc |-> "loop", emails |-> emails,
                      notificationType |-> notificationType, options |-> options,
                      i |-> 1, results |-> <<>>, statusCounts |-> NoCounts,
                      lookups |-> 0, prior |-> preferencesStore]
         /\ ret' = ret
    ELSE /\ batch' = batch
         /\ ret' = [op |-> "sendBatchNotifications", emails |-> emails,
                    notificationType |-> notificationType, options |-> options,
                    phase |-> start.phase, lookups |-> 0,
                    prior |-> preferencesStore, value |-> start.result]

\* sendBatchNotifications is called: input checks, options, pre-validation
BatchStart ==
    /\ ret = NoCall
    /\ batch = Idle
    /\ \E emails \in BatchInputs, notificationType \in BatchTypes, options \in BatchOptions :
          Started(emails, notificationType, options,
                  startBatch(templates, emails, notificationType, options))
    /\ sends' = <<>>
    /\ UNCHANGED <<preferencesStore, templates, query>>

Processed(outcomes, p) ==
    /\ unusedFixed(outcomes, p.sends)
    /\ preferencesStore' = p.store
    /\ sends' = p.sends
    /\ batch' = looked(advance(batch, p.entry), p.read)

\* the next recipient is processed and its result pushed
BatchStep ==
    /\ batch.pc = "loop"
    /\ batch.i <= Len(batch.emails)
    /\ \E outcomes \in [{"email", "sms"} -> BatchSenderOutcomes] :
          Processed(outcomes,
                    processRecipient(preferencesStore, templates, batch.emails[batch.i],
                                     batch.notificationType, batch.options, outcomes))
    /\ UNCHANGED <<templates, ret, query>>

\* the loop is over, or was left by break: the batch result is returned
BatchFinish ==
    /\ batch.pc \in {"loop", "break"}
    /\ batch.pc = "loop" => batch.i > Len(batch.emails)
    /\ ret' = [op |-> "sendBatchNotifications", emails |-> batch.emails,
               notificationType |-> batch.notificationType, options |-> batch.options,
               phase |-> "execution", lookups |-> batch.lookups,
               prior |-> batch.prior, value |-> batchResult(batch)]
    /\ batch' = Idle
    /\ sends' = <<>>
    /\ UNCHANGED <<preferencesStore, templates, query>>

NextBatch ==
    \/ BatchStart
    \/ BatchStep
    \/ BatchFinish
    \/ SendNotificationByPreference
    \/ Return

SpecBatch == InitBatch /\ [][NextBatch]_vars

(***************************************************************************)
(* SpecParallel: sendBatchNotifications in both modes.  In parallel mode   *)
(* the tasks of the recipients go on in any order; in sequential mode the  *)
(* loop takes one recipient per step.  EmailA has both channels and a      *)
(* phone number, EmailO has opted out, UserId fails the address check.     *)
(***************************************************************************)
MaxParallel == 3

BothChannels == [smsEnabled |-> TRUE, phone |-> "5551234"]

ParallelStore == updateUserPreferences(BatchStore, EmailA, BothChannels).store

ParallelRecipients == {EmailA, EmailO, UserId}

ParallelInputs == UNION {[1..n -> ParallelRecipients] : n \in 0..MaxParallel}

ParallelTypes == {"welcome", "news"}

ParallelOptions == [failFast : BOOLEAN, parallelSend : BOOLEAN]

\* the email sender completes, returns a promise or throws; the sms sender
\* completes or throws
ParallelSenderOutcomes ==
    {outcomes \in [{"email", "sms"} -> {Dispatched, Pending, Throws}] :
        outcomes["sms"] # Pending}

InitParallel ==
    /\ preferencesStore = ParallelStore
    /\ templates = BatchTemplates
    /\ ret = NoCall
    /\ sends = <<>>
    /\ batch = Idle
    /\ query = NoCall

ParallelStarted(emails, notificationType, options, start, st) ==
    IF start.go
    THEN /\ batch' = [pc |-> "parallel", emails |-> emails,
                      notificationType |-> notificationType, options |-> options,
                      statusCounts |-> st.statusCounts, lookups |-> st.lookups,
                      prior |-> preferencesStore, tasks |-> st.tasks]
         /\ preferencesStore' = st.store
         /\ ret' = ret
    ELSE /\ batch' = batch
         /\ preferencesStore' = preferencesStore
         /\ ret' = [op |-> "sendBatchNotifications", emails |-> emails,
                    notificationType |-> notificationType, options |-> options,
                    phase |-> start.phase, lookups |-> 0,
                    prior |-> preferencesStore, value |-> start.result]

\* sendBatchNotifications is called with parallelSend: the checks, then
\* emails.map starts every callback
ParallelStart ==
    /\ ret = NoCall
    /\ batch = Idle
    /\ \E emails \in ParallelInputs, notificationType \in ParallelTypes,
          options \in ParallelOptions :
          /\ batchOption(options, "parallelSend")
          /\ ParallelStarted(emails, notificationType, options,
                             startBatch(templates, emails, notificationType, options),
                             startTasks([store |-> preferencesStore,
                                         statusCounts |-> NoCounts, lookups |-> 0,
                                         tasks |-> <<>>],
                                        emails, 1))
    /\ UNCHANGED <<templates, sends, query>>

\* sendBatchNotifications is called without parallelSend
SequentialStart ==
    /\ ret = NoCall
    /\ batch = Idle
    /\ \E emails \in ParallelInputs, notificationType \in ParallelTypes,
          options \in ParallelOptions :
          /\ ~batchOption(options, "parallelSend")
          /\ Started(emails, notificationType, options,
                     startBatch(templates, emails, notificationType, options))
    /\ UNCHANGED <<preferencesStore, templates, sends, query>>

TaskDispatched(i, outcomes, r) ==
    /\ unusedFixed(outcomes, r.sends)
    /\ batch' = [batch EXCEPT !.tasks[i] = dispatched(@, outcomes, r)]

\* the preferences of a waiting task arrive: its dispatch runs to its return
TaskDispatch ==
    /\ batch.pc = "parallel"
    /\ \E i \in 1..Len(batch.tasks), outcomes \in ParallelSenderOutcomes :
          /\ batch.tasks[i].pc = "awaitPrefs"
          /\ TaskDispatched(i, outcomes,
                 dispatchWithPrefs(batch.tasks[i].got, templates, batch.emails[i],
                                   batch.notificationType,
                                   notificationOptionsOf(batch.options), outcomes))
    /\ UNCHANGED <<preferencesStore, templates, ret, sends, query>>

\* the dispatch result of a task arrives in its callback: it is classified
TaskClassify ==
    /\ batch.pc = "parallel"
    /\ \E i \in 1..Len(batch.tasks) :
          /\ batch.tasks[i].pc = "awaitDispatch"
          /\ batch' = settled(batch, i,
                              classify(batch.tasks[i].result,
                                       batchOption(batch.options, "forceSend")),
                              batch.tasks[i].result)
    /\ UNCHANGED <<preferencesStore, templates, ret, sends, query>>

\* every callback has returned: Promise.all resolves and the batch returns
ParallelFinish ==
    /\ batch.pc = "parallel"
    /\ \A i \in 1..Len(batch.tasks) : batch.tasks[i].pc = "done"
    /\ ret' = [op |-> "sendBatchNotifications", emails |-> batch.emails,
               notificationType |-> batch.notificationType, options |-> batch.options,
               phase |-> "execution", lookups |-> batch.lookups,
               prior |-> batch.prior,
               value |-> batchResult([options |-> batch.options,
                                      statusCounts |-> batch.statusCounts,
                                      results |-> gathered(batch)])]
    /\ batch' = Idle
    /\ UNCHANGED <<preferencesStore, templates, sends, query>>

NextParallel ==
    \/ ParallelStart
    \/ TaskDispatch
    \/ TaskClassify
    \/ ParallelFinish
    \/ SequentialStart
    \/ BatchStep
    \/ BatchFinish
    \/ Return

SpecParallel == InitParallel /\ [][NextParallel]_vars

(***************************************************************************)
(* Calls for recipients some of whom have no record yet: EmailN has none,  *)
(* EmailA and EmailO have theirs.                                          *)
(***************************************************************************)
MaxFirstTime == 2

FirstTimeRecipients == {EmailN, EmailA, EmailO}

FirstTimeInputs == UNION {[1..n -> FirstTimeRecipients] : n \in 1..MaxFirstTime}

\* getUserPreferences(userId) is called on its own
GetUserPreferences ==
    /\ ret = NoCall
    /\ batch = Idle
    /\ query = NoCall
    /\ \E userId \in FirstTimeRecipients \cup {BadEmail} :
          /\ query' = [op |-> "getUserPreferences", userId |-> userId,
                       prior |-> preferencesStore,
                       value |-> getUserPreferences(preferencesStore, userId)]
          /\ preferencesStore' = getUserPreferences(preferencesStore, userId).store
    /\ UNCHANGED <<templates, ret, sends, batch>>

\* sendNotificationByPreference is called for one of the recipients
FirstTimeSend ==
    /\ ret = NoCall
    /\ batch = Idle
    /\ \E email \in FirstTimeRecipients, notificationType \in ParallelTypes,
          options \in Options, outcomes \in ParallelSenderOutcomes :
          Called(email, notificationType, options, outcomes,
                 sendNotificationByPreference(preferencesStore, templates, email,
                                              notificationType, options, outcomes))
    /\ UNCHANGED <<templates, batch, query>>

\* sendBatchNotifications is called with parallelSend
FirstTimeParallelStart ==
    /\ ret = NoCall
    /\ batch = Idle
    /\ \E emails \in FirstTimeInputs, notificationType \in ParallelTypes,
          options \in ParallelOptions :
          /\ batchOption(options, "parallelSend")
          /\ ParallelStarted(emails, notificationType, options,
                             startBatch(templates, emails, notificationType, options),
                             startTasks([store |-> preferencesStore,
                                         statusCounts |-> NoCounts, lookups |-> 0,
                                         tasks |-> <<>>],
                                        emails, 1))
    /\ UNCHANGED <<templates, sends, query>>

\* sendBatchNotifications is called without parallelSend
FirstTimeSequentialStart ==
    /\ ret = NoCall
    /\ batch = Idle
    /\ \E emails \in FirstTimeInputs, notificationType \in ParallelTypes,
          options \in ParallelOptions :
          /\ ~batchOption(options, "parallelSend")
          /\ Started(emails, notificationType, options,
                     startBatch(templates, emails, notificationType, options))
    /\ UNCHANGED <<preferencesStore, templates, sends, query>>

NextFirstTime ==
    \/ GetUserPreferences
    \/ FirstTimeSend
    \/ FirstTimeParallelStart
    \/ FirstTimeSequentialStart
    \/ TaskDispatch
    \/ TaskClassify
    \/ ParallelFinish
    \/ BatchStep
    \/ BatchFinish
    \/ ResolveReturn
    \/ Return

SpecFirstTime == InitParallel /\ [][NextFirstTime]_vars

(***************************************************************************)
(* Properties of sendNotificationByPreference, checked under Spec.         *)
(* ret holds the last call and its value, sends the senders it invoked,    *)
(* preferencesStore the store it left: the record it read is the           *)
(* recipient's record there.                                               *)
(***************************************************************************)
isCall == ret.op = "sendNotificationByPreference"

\* the call got past its two argument checks
wasDispatched == isCall /\ ret.email # <<>> /\ ret.notificationType # ""

hasRecord(id) == id \in DOMAIN preferencesStore

enabledFor(id, channel) ==
    /\ hasRecord(id)
    /\ channel = "email" => preferencesStore[id].emailEnabled = TRUE
    /\ channel = "sms" => preferencesStore[id].smsEnabled = TRUE

\* C1: with forceSend = false, sendNotificationByPreference invokes a sender
\* only on channels the recipient's stored preferences enable, and every
\* channel of the returned channels list is an enabled one.
C1_OnlyEnabledChannels ==
    (isCall /\ ~ret.options.forceSend) =>
        /\ \A i \in 1..Len(sends) : enabledFor(ret.email, sends[i])
        /\ \A i \in 1..Len(ret.value.channels) :
               enabledFor(ret.email, ret.value.channels[i])

\* a call without forceSend for a recipient with email off and sms on: the
\* sms sender alone was invoked
C1_Witness ==
    /\ isCall
    /\ ~ret.options.forceSend
    /\ hasRecord(ret.email)
    /\ preferencesStore[ret.email].emailEnabled = FALSE
    /\ sends = <<"sms">>
    /\ ret.value.channels = <<"sms">>

\* C2: every channel-level failure of a call appears as a ChannelResult with
\* success = false and a non-empty error (the call itself always returns an
\* object: in the model every call yields a value).
C2_FailuresCarryError ==
    (isCall /\ has(ret.value, "results")) =>
        \A c \in DOMAIN ret.value.results :
            ret.value.results[c].success = FALSE =>
                /\ has(ret.value.results[c], "error")
                /\ ret.value.results[c].error # Null
                /\ ret.value.results[c].error # ""

\* C3: in every result returned after the channel loop, success is true
\* exactly when at least one ChannelResult has success = true.
C3_SuccessIffAnyChannel ==
    (isCall /\ has(ret.value, "results")) =>
        (ret.value.success = TRUE) <=>
            (\E c \in DOMAIN ret.value.results : ret.value.results[c].success = TRUE)

\* both channels ran, one succeeded and the other failed, and the dispatch succeeded
C3_Witness ==
    /\ isCall
    /\ has(ret.value, "results")
    /\ DOMAIN ret.value.results = {"email", "sms"}
    /\ ret.value.results["email"].success = TRUE
    /\ ret.value.results["sms"].success = FALSE
    /\ ret.value.success = TRUE

\* the sms template of the call's notification type exists neither in the
\* recipient's language nor in "en"
smsUnresolvable ==
    /\ ~hasVariant(templates, "sms", ret.notificationType, "en")
    /\ hasRecord(ret.email) =>
           ~hasVariant(templates, "sms", ret.notificationType,
                       preferredLanguageOf(preferencesStore[ret.email]))

\* C4: with requireAllChannels = true and an unresolvable sms template, and
\* whatever the other options (forceSend included), the call returns a
\* failure, invokes no sender and returns no ChannelResult.
C4_RequireAllFailsClosed ==
    (wasDispatched /\ ret.options.requireAllChannels /\ smsUnresolvable) =>
        /\ ret.value.success = FALSE
        /\ sends = <<>>
        /\ ~has(ret.value, "results")

\* C6: when the stored preferences enable no channel and forceSend = true,
\* the planned channels are [email, sms] if the record has a phone number
\* and [email] if it has none.
C6_ForcedChannels ==
    (/\ wasDispatched
     /\ ret.options.forceSend
     /\ hasRecord(ret.email)
     /\ preferencesStore[ret.email].emailEnabled = FALSE
     /\ preferencesStore[ret.email].smsEnabled = FALSE)
    => ret.value.channels =
           IF has(preferencesStore[ret.email], "phone")
              /\ preferencesStore[ret.email].phone # ""
           THEN <<"email", "sms">> ELSE <<"email">>

\* a forced call for an opted-out recipient with a phone number: both channels planned
C6_Witness ==
    /\ wasDispatched
    /\ ret.options.forceSend
    /\ hasRecord(ret.email)
    /\ preferencesStore[ret.email].emailEnabled = FALSE
    /\ preferencesStore[ret.email].smsEnabled = FALSE
    /\ has(preferencesStore[ret.email], "phone")
    /\ ret.value.channels = <<"email", "sms">>

\* C7: for a record with emailEnabled = true, smsEnabled = false and
\* preferredLanguage = L, L not "en", and an email template that exists only
\* in "en", a call with the default options whose email sender returns plans
\* exactly [email] and its email ChannelResult has requestedLanguage = L,
\* languageFallbackUsed = true and actualLanguage = "en".
C7_FallbackReported ==
    (/\ wasDispatched
     /\ ret.options = [forceSend |-> FALSE, combinedOnly |-> FALSE,
                       requireAllChannels |-> FALSE]
     /\ includes(ret.email, "@")
     /\ hasRecord(ret.email)
     /\ preferencesStore[ret.email].emailEnabled = TRUE
     /\ preferencesStore[ret.email].smsEnabled = FALSE
     /\ preferencesStore[ret.email].preferredLanguage # "en"
     /\ ret.notificationType \in DOMAIN templates["email"]
     /\ DOMAIN templates["email"][ret.notificationType] = {"en"}
     /\ ret.outcomes["email"].kind = "return")
    => /\ ret.value.channels = <<"email">>
       /\ has(ret.value.results, "email")
       /\ has(ret.value.results["email"], "requestedLanguage")
       /\ ret.value.results["email"].requestedLanguage
              = preferencesStore[ret.email].preferredLanguage
       /\ ret.value.results["email"].languageFallbackUsed = TRUE
       /\ ret.value.results["email"].actualLanguage = "en"

(***************************************************************************)
(* Properties of the template resolvers, checked under SpecResolve.        *)
(* query holds the last resolver call and what it yielded.                 *)
(***************************************************************************)
\* the language variants the resolver of the last query had to choose from
variantsOf(q) ==
    IF q.op = "renderTemplateByLanguage"
    THEN (IF q.name = "promo" THEN q.languages ELSE {})
    ELSE IF q.name \in DOMAIN templates[q.channel]
    THEN DOMAIN templates[q.channel][q.name]
    ELSE {}

\* the language of a variant, rendered or not: its text carries it
langOf(t) == IF has(t, "text") THEN t.text[1].lit[3] ELSE t.subject[1].lit[3]

yielded(q) ==
    IF q.op = "renderTemplateByLanguage" THEN q.value.value ELSE q.value.template

\* C8: for a channel and template name whose only variant is "en",
\* getTemplateWithFallback(channel, name, L) returns the English template
\* with language = "en", and fallbackUsed = true exactly when L is not "en".
C8_EnglishOnlyFallback ==
    (query.op = "getTemplateWithFallback" /\ variantsOf(query) = {"en"}) =>
        /\ query.value.template = templates[query.channel][query.name]["en"]
        /\ query.value.language = "en"
        /\ query.value.fallbackUsed = (query.language # "en")

\* C9: whichever resolver is asked (the dispatch path,
\* getTemplateWithFallback, renderTemplateByLanguage) for language L, a
\* variant it yields is in L or in "en", and a template with variants only
\* in other languages is not found.
C9_TwoStepChainOnly ==
    query # NoCall =>
        /\ query.found => langOf(yielded(query)) \in {query.language, "en"}
        /\ variantsOf(query) \cap {query.language, "en"} = {} => ~query.found

(***************************************************************************)
(* Properties of sendBatchNotifications, checked under SpecBatch.          *)
(* batch holds the call in progress, ret the call that returned.           *)
(***************************************************************************)
\* the recipient's record has both channels off and is not deleted
optedOut(id) ==
    /\ hasRecord(id)
    /\ preferencesStore[id].emailEnabled = FALSE
    /\ preferencesStore[id].smsEnabled = FALSE
    /\ preferencesStore[id].isDeleted = FALSE

isBatch == ret.op = "sendBatchNotifications"

\* the batch looks at this recipient's preferences: its address passes the
\* batch's own format check
reachesDispatch(email) == email # <<>> /\ includes(email, "@")

skippedUntouched(entry) ==
    /\ entry.status = "skipped"
    /\ entry.channels = <<>>
    /\ entry.success = FALSE

\* C5: for a recipient whose record has emailEnabled = false and
\* smsEnabled = false, with forceSend = false, sendNotificationByPreference
\* returns channels = [] and success = false and invokes no sender; and
\* sendBatchNotifications, once its pre-validation has passed and for an
\* address that passes its format check, classifies that recipient as
\* skipped, not as failed.
C5_OptedOutSkipped ==
    /\ (wasDispatched /\ ~ret.options.forceSend /\ optedOut(ret.email)) =>
           /\ ret.value.channels = <<>>
           /\ ret.value.success = FALSE
           /\ sends = <<>>
    /\ (batch.pc \in {"loop", "break"} /\ ~batchOption(batch.options, "forceSend")) =>
           /\ \A i \in 1..Len(batch.results) :
                  (reachesDispatch(batch.emails[i]) /\ optedOut(batch.emails[i]))
                      => skippedUntouched(batch.results[i])
           /\ (/\ Len(batch.results) > 0
               /\ optedOut(batch.emails[Len(batch.results)])) => sends = <<>>
    /\ (isBatch /\ ret.phase = "execution" /\ ~batchOption(ret.options, "forceSend")) =>
           \A i \in 1..Len(ret.value.results) :
               (reachesDispatch(ret.emails[i]) /\ optedOut(ret.emails[i]))
                   => skippedUntouched(ret.value.results[i])

\* a batch without forceSend returned with an opted-out recipient counted as skipped
C5_Witness ==
    /\ isBatch
    /\ ret.phase = "execution"
    /\ ~batchOption(ret.options, "forceSend")
    /\ \E i \in 1..Len(ret.value.results) :
           /\ ret.emails[i] = EmailO
           /\ optedOut(EmailO)
           /\ ret.value.results[i].status = "skipped"
    /\ ret.value.statusCounts.skipped > 0

\* C5 as first stated, for the batch: whenever sendBatchNotifications has
\* run its recipients without forceSend, the entry of every recipient whose
\* record has both channels off is classified skipped.
C5_AlwaysSkipped ==
    (isBatch /\ ret.phase = "execution" /\ ~batchOption(ret.options, "forceSend")) =>
        \A i \in 1..Len(ret.value.results) :
            optedOut(ret.emails[i]) => ret.value.results[i].status = "skipped"

\* result i belongs to recipient i (an empty address is reported as 'invalid-email')
isPrefix(emails, results) ==
    /\ Len(results) <= Len(emails)
    /\ \A i \in 1..Len(results) :
           results[i].email = (IF emails[i] = <<>> THEN <<"invalid-email">> ELSE emails[i])

failedAt(results) == {i \in 1..Len(results) : results[i].status = "failed"}

isSequential(options) == ~batchOption(options, "parallelSend")

\* C10: in sequential mode the results are, at every moment and at the end,
\* the results of a prefix of the input list in input order, one more per
\* step; with failFast the loop stops right after the first recipient
\* classified failed (and only then: a skipped one does not stop it), so
\* that recipient is the last entry; without a stop every recipient has an
\* entry.  With 4 recipients of which #2 fails validation and #1 does not
\* fail, failFast gives results.length = 2 and statusCounts.failed = 1.
C10_SequentialPrefix ==
    /\ (batch.pc \in {"loop", "break"} /\ isSequential(batch.options)) =>
           /\ isPrefix(batch.emails, batch.results)
           /\ batch.i = Len(batch.results) + 1
           /\ (batch.pc = "break") <=>
                  (/\ batchOption(batch.options, "failFast")
                   /\ Len(batch.results) \in failedAt(batch.results))
           /\ batchOption(batch.options, "failFast") =>
                  failedAt(batch.results) \subseteq {Len(batch.results)}
    /\ (isBatch /\ ret.phase = "execution" /\ isSequential(ret.options)) =>
           /\ isPrefix(ret.emails, ret.value.results)
           /\ ret.value.statusCounts.failed = Cardinality(failedAt(ret.value.results))
           /\ IF batchOption(ret.options, "failFast") /\ failedAt(ret.value.results) # {}
              THEN failedAt(ret.value.results) = {Len(ret.value.results)}
              ELSE Len(ret.value.results) = Len(ret.emails)
           /\ (/\ batchOption(ret.options, "failFast")
               /\ Len(ret.emails) = 4
               /\ ~reachesDispatch(ret.emails[2])
               /\ ret.value.results[1].status # "failed") =>
                  /\ Len(ret.value.results) = 2
                  /\ ret.value.statusCounts.failed = 1

\* the scenario of the claim: 4 recipients, failFast, sequential, #1 skipped
\* (so not a stop), #2 fails validation, and the batch returned 2 results
C10_Witness ==
    /\ isBatch
    /\ ret.phase = "execution"
    /\ isSequential(ret.options)
    /\ batchOption(ret.options, "failFast")
    /\ Len(ret.emails) = 4
    /\ Len(ret.value.results) = 2
    /\ ret.value.results[1].status = "skipped"
    /\ ret.value.results[2].error = "Invalid email address format"
    /\ ret.value.statusCounts.failed = 1

(***************************************************************************)
(* Properties of the channel loop of sendNotificationByPreference, checked *)
(* under Spec.                                                             *)
(***************************************************************************)
\* C18: a sender that returns a rejected promise gives the ChannelResult a
\* sender that throws gives: success = false with the error recorded.
C18_RejectionAsThrow ==
    (isCall /\ has(ret.value, "results")) =>
        \A c \in DOMAIN ret.value.results :
            (inSeq(sends, c) /\ ret.outcomes[c] = Rejected) =>
                /\ ret.value.results[c].success = FALSE
                /\ has(ret.value.results[c], "error")
                /\ ret.value.results[c].error # Null
                /\ ret.value.results[c] = senderResult(Throws, FALSE, "en")

\* the channel's address is invalid and its template is missing in the
\* recipient's language and in "en"
invalidAndMissing(c) ==
    /\ hasRecord(ret.email)
    /\ ~addressValid(c, ret.email, preferencesStore[ret.email])
    /\ ~templateExists(templates, c, ret.notificationType,
                       preferredLanguageOf(preferencesStore[ret.email]))

\* C19: a planned channel whose address is invalid and whose template is
\* missing gets the invalid-format error, not "Template not found".
C19_AddressBeforeTemplate ==
    (wasDispatched /\ has(ret.value, "results")) =>
        \A c \in DOMAIN ret.value.results :
            invalidAndMissing(c) => ret.value.results[c].error = addressError(c)

allPlannedSucceeded ==
    \A i \in 1..Len(ret.value.channels) :
        ret.value.results[ret.value.channels[i]].success = TRUE

somePlannedSucceeded ==
    \E i \in 1..Len(ret.value.channels) :
        ret.value.results[ret.value.channels[i]].success = TRUE

\* C20: in combined mode, after the channel loop, combinedDelivery is true
\* exactly when every planned channel succeeded and partialDelivery exactly
\* when some but not all planned channels succeeded.
C20_CombinedIffAllPlanned ==
    (/\ wasDispatched
     /\ has(ret.value, "results")
     /\ (ret.options.combinedOnly \/ ret.options.requireAllChannels))
    => /\ ret.value.combinedDelivery = allPlannedSucceeded
       /\ ret.value.partialDelivery = (somePlannedSucceeded /\ ~allPlannedSucceeded)

(***************************************************************************)
(* Properties of sendBatchNotifications, checked under SpecBatch.          *)
(***************************************************************************)
\* the entry is one of a recipient skipped for a reason the batch accepts:
\* no channel enabled (preferences respected), or no preferences found
skipJustified(email, entry) ==
    /\ has(entry, "error")
    /\ \/ /\ entry.error = "No notification channels enabled for this notification type"
          /\ truthy(entry, "preferencesRespected")
          /\ optedOut(email)
       \/ /\ entry.error = "User preferences not found"
          /\ ~hasRecord(email)

\* the recipient's dispatch ran the channel loop and no channel succeeded:
\* template missing, invalid address or send error on every planned channel
allChannelsFailed(entry) ==
    /\ has(entry, "results")
    /\ \A c \in DOMAIN entry.results : entry.results[c].success = FALSE

classifiedRight(email, entry) ==
    /\ entry.status \in {"success", "skipped", "failed"}
    /\ (entry.status = "success") <=> (entry.success = TRUE)
    /\ entry.status = "skipped" => skipJustified(email, entry)
    /\ ~reachesDispatch(email) => entry.status = "failed"
    /\ allChannelsFailed(entry) => entry.status = "failed"

wellFormed == ret.emails # <<>> /\ ret.notificationType # ""

englishMissing(type) == ~hasVariant(templates, type, ret.notificationType, "en")

everyRecipientFailed ==
    /\ Len(ret.value.results) = Len(ret.emails)
    /\ \A i \in 1..Len(ret.emails) :
           /\ ret.value.results[i].email = ret.emails[i]
           /\ ret.value.results[i].status = "failed"
    /\ ret.value.statusCounts.failed = Len(ret.emails)

\* C14: with validateTemplatesFirst = true and no English email template of
\* the notification type, a batch that passed its input checks returns
\* success = false with no preference lookup and no send, one failed entry
\* per input recipient and statusCounts.failed = the number of recipients.
C14_PreflightFailsAll ==
    (/\ isBatch
     /\ wellFormed
     /\ batchOption(ret.options, "validateTemplatesFirst")
     /\ englishMissing("email"))
    => /\ ret.phase = "preflight"
       /\ ret.value.success = FALSE
       /\ ret.lookups = 0
       /\ sends = <<>>
       /\ everyRecipientFailed

\* a batch of three recipients rejected by the pre-flight check
C14_Witness ==
    /\ isBatch
    /\ ret.phase = "preflight"
    /\ ret.notificationType = "news"
    /\ Len(ret.emails) = 3
    /\ Len(ret.value.results) = 3
    /\ ret.value.statusCounts.failed = 3

\* the pre-flight check of the batch fails
preflightFails ==
    /\ batchOption(ret.options, "validateTemplatesFirst")
    /\ \/ englishMissing("email")
       \/ batchOption(ret.options, "requireAllChannels") /\ englishMissing("sms")

\* C15 as first stated: an entry point returns without processing any
\* recipient only for malformed input (here: an empty recipient list, a
\* missing recipient or a missing notification type).
C15_OnlyMalformedRejected ==
    /\ (isBatch /\ ret.phase # "execution") =>
           (ret.emails = <<>> \/ ret.notificationType = "")
    /\ (isCall /\ ~ret.read) => (ret.email = <<>> \/ ret.notificationType = "")

\* C15: sendBatchNotifications returns without processing any recipient (no
\* preference lookup, no send, processedCount = 0) exactly when the
\* recipient list is empty, the notification type is missing or the
\* pre-flight template check fails, and otherwise processes at least one
\* recipient; sendNotificationByPreference returns without a preference
\* lookup exactly when the email or the notification type is missing.
C15_ImmediateFailureCases ==
    /\ isBatch =>
           /\ (ret.phase # "execution") <=> (~wellFormed \/ preflightFails)
           /\ ret.phase # "execution" =>
                  /\ ret.value.success = FALSE
                  /\ ret.value.processedCount = 0
                  /\ ret.lookups = 0
                  /\ sends = <<>>
           /\ ret.phase = "execution" =>
                  /\ Len(ret.value.results) >= 1
                  /\ ret.value.processedCount = Len(ret.value.results)
    /\ isCall =>
           /\ ~ret.read <=> (ret.email = <<>> \/ ret.notificationType = "")
           /\ ~ret.read => (ret.value.success = FALSE /\ sends = <<>>)

\* a well-formed batch rejected by the pre-flight check because
\* requireAllChannels needs an English sms template that does not exist
C15_Witness ==
    /\ isBatch
    /\ wellFormed
    /\ ret.phase = "preflight"
    /\ batchOption(ret.options, "requireAllChannels")
    /\ ~englishMissing("email")
    /\ Len(ret.value.results) = 2
    /\ ret.lookups = 0

\* the entry reports a planning outcome of the recipient's dispatch
planningOutcome(entry) ==
    /\ has(entry, "error")
    /\ entry.error \in {"No notification channels enabled for this notification type",
                        "Templates not available for all required channels",
                        "Not all required notification channels are available",
                        "No viable channels available for notification"}

\* C16: in sequential mode with failFast = true, every recipient that
\* follows a recipient with a planning outcome is still processed and
\* present in results.
C16_PlanningNeverStops ==
    (/\ isBatch
     /\ ret.phase = "execution"
     /\ isSequential(ret.options)
     /\ batchOption(ret.options, "failFast"))
    => \A i \in 1..Len(ret.value.results) :
           (planningOutcome(ret.value.results[i]) /\ i < Len(ret.emails))
               => Len(ret.value.results) > i

(***************************************************************************)
(* Properties of sendBatchNotifications in both modes, checked under       *)
(* SpecParallel.                                                           *)
(***************************************************************************)
isParallel(options) == batchOption(options, "parallelSend")

withStatus(results, status) == {i \in 1..Len(results) : results[i].status = status}

\* C12: in every BatchResult of the execution phase, in both modes and
\* whatever the order of the recipients' steps, each of statusCounts
\* success, skipped and failed is the number of results entries with that
\* status, and success is true exactly when statusCounts.success > 0.
C12_CountsMatchResults ==
    (isBatch /\ ret.phase = "execution") =>
        /\ \A status \in {"success", "skipped", "failed"} :
               ret.value.statusCounts[status]
                   = Cardinality(withStatus(ret.value.results, status))
        /\ (ret.value.success = TRUE) <=> (ret.value.statusCounts.success > 0)

\* a parallel batch returned with one recipient of each status
C12_Witness ==
    /\ isBatch
    /\ ret.phase = "execution"
    /\ isParallel(ret.options)
    /\ ret.value.statusCounts = [success |-> 1, skipped |-> 1, failed |-> 1]
    /\ ret.value.success = TRUE

before(log, k, name, channel) == \E j \in 1..(k - 1) : log[j] = event(name, channel)

\* every send of the log starts after the fetch and the planning, and an sms
\* send that follows an email send starts after the email send has ended
sendsOrdered(log) ==
    \A k \in 1..Len(log) :
        log[k].event = "start" =>
            /\ before(log, k, "fetched", "")
            /\ before(log, k, "planned", "")
            /\ (log[k].channel = "sms" /\ before(log, k, "start", "email"))
                   => before(log, k, "end", "email")

\* C17: in parallel mode, whatever the order of the tasks' steps, no send of
\* a recipient starts before that recipient's preference fetch and planning
\* have completed, and its sms send never starts before its email send has
\* finished.
C17_SendsOrdered ==
    batch.pc = "parallel" =>
        \A i \in 1..Len(batch.tasks) : sendsOrdered(batch.tasks[i].log)

(***************************************************************************)
(* The personalization data of a notification: DEFAULT_DATA, the fields of *)
(* the user record and the data of the call.                               *)
(***************************************************************************)
\* the entries of DEFAULT_DATA the templates of the model use
DEFAULT_DATA ==
    [serviceName |-> "NotifyHub", userName |-> "Valued Customer", otpCode |-> "000000"]

\* a || b for two strings or undefined
orElse(a, b) == IF a # Null /\ a # "" THEN a ELSE b

\* prepareNotificationTemplates, lines 335-343: templateData
templateData(userData, dynamicData) ==
    spread(spread(DEFAULT_DATA,
                  [userName  |-> orElse(orNull(userData, "name"),
                                        orElse(orNull(dynamicData, "name"),
                                               DEFAULT_DATA.userName)),
                   userEmail |-> orElse(orNull(userData, "email"),
                                        orNull(dynamicData, "email")),
                   userPhone |-> orElse(orNull(userData, "phone"),
                                        orNull(dynamicData, "phone"))]),
           dynamicData)

\* sendNotificationByPreference, lines 907-910 and 998-1001: the data
\* property of the object handed to the sender
senderData(data, userPrefs) ==
    spread(data, [userName |-> orElse(orNull(userPrefs, "name"), "Valued Customer")])

\* the objects with some of the keys, each with one of the values
objects(objectKeys, values) == UNION {[S -> values] : S \in SUBSET objectKeys}

DynamicData == objects({"userName", "name", "serviceName", "email"}, {"dyn"})

UserRecords == objects({"name", "phone"}, {"rec", ""})

PrepareNotificationTemplates ==
    /\ query = NoCall
    /\ \E userData \in UserRecords, dynamicData \in DynamicData :
          query' = [op |-> "templateData", userData |-> userData,
                    dynamicData |-> dynamicData,
                    value |-> templateData(userData, dynamicData)]
    /\ UNCHANGED <<preferencesStore, templates, ret, sends, batch>>

\* the channel loop of sendNotificationByPreference builds the sender's data
SenderData ==
    /\ query = NoCall
    /\ \E userPrefs \in UserRecords, data \in DynamicData :
          query' = [op |-> "senderData", userData |-> userPrefs,
                    dynamicData |-> data,
                    value |-> senderData(data, userPrefs)]
    /\ UNCHANGED <<preferencesStore, templates, ret, sends, batch>>

NextData ==
    \/ PrepareNotificationTemplates
    \/ SenderData
    \/ ResolveReturn

SpecData == Init /\ [][NextData]_vars

(***************************************************************************)
(* templateUtils: getTemplate with language preferences, renderString.     *)
(***************************************************************************)
DEFAULT_LANGUAGE == "en"

\* lang.toLowerCase() on the language codes of the model
toLowerCaseCode(lang) ==
    CASE lang = "EN" -> "en"
      [] lang = "ES" -> "es"
      [] lang = "FR" -> "fr"
      [] OTHER -> lang

\* lines 233-238: the language argument, an array, a string or undefined,
\* as the list of normalized codes
normalizedLanguages(language) ==
    LET languagePreferences ==
            IF has(language, "array") THEN language.array
            ELSE IF has(language, "string") /\ language.string # ""
            THEN <<language.string>>
            ELSE <<DEFAULT_LANGUAGE>>
    IN [i \in 1..Len(languagePreferences) |-> toLowerCaseCode(languagePreferences[i])]

\* lines 267-273: the first language of the list with a variant, 0 for none
RECURSIVE firstAvailable(_, _, _)
firstAvailable(variants, langs, i) ==
    IF i > Len(langs) THEN 0
    ELSE IF langs[i] \in DOMAIN variants THEN i
    ELSE firstAvailable(variants, langs, i + 1)

ReturnsNull == [kind |-> "null"]

\* getTemplate whose strictMode does not stop the fallback to 'en'
getTemplateByPreference_strictFallsBack(tmpl, type, name, language, strictMode, includeMetadata) ==
    IF type = "" \/ name = "" THEN ReturnsNull
    ELSE IF type \notin DOMAIN tmpl THEN ReturnsNull
    ELSE IF name \notin DOMAIN tmpl[type] THEN ReturnsNull
    ELSE
      LET variants == tmpl[type][name]
          langs    == normalizedLanguages(language)
          found    == firstAvailable(variants, langs, 1)
          fallback == found = 0 /\ ~inSeq(langs, DEFAULT_LANGUAGE)
          selectedLanguage == IF found > 0 THEN langs[found] ELSE DEFAULT_LANGUAGE
      IN IF found = 0 /\ ~(fallback /\ DEFAULT_LANGUAGE \in DOMAIN variants)
         THEN ReturnsNull
         ELSE IF includeMetadata
         THEN [kind |-> "withMetadata", template |-> variants[selectedLanguage],
               metadata |-> [requestedLanguages |-> langs,
                             selectedLanguage |-> selectedLanguage,
                             fallbackUsed |-> fallback, strictMode |-> strictMode]]
         ELSE [kind |-> "template", template |-> variants[selectedLanguage]]

\* templateUtils.getTemplate(type, name, language, {strictMode, includeMetadata}),
\* lines 222-300
getTemplateByPreference(tmpl, type, name, language, strictMode, includeMetadata) ==
    IF type = "" \/ name = "" THEN ReturnsNull
    ELSE IF type \notin DOMAIN tmpl THEN ReturnsNull
    ELSE IF name \notin DOMAIN tmpl[type] THEN ReturnsNull
    ELSE
      LET variants == tmpl[type][name]
          langs    == normalizedLanguages(language)
          found    == firstAvailable(variants, langs, 1)
          fallback == found = 0 /\ ~strictMode /\ ~inSeq(langs, DEFAULT_LANGUAGE)
          selectedLanguage == IF found > 0 THEN langs[found] ELSE DEFAULT_LANGUAGE
      IN IF found = 0 /\ ~(fallback /\ DEFAULT_LANGUAGE \in DOMAIN variants)
         THEN ReturnsNull
         ELSE IF includeMetadata
         THEN [kind |-> "withMetadata", template |-> variants[selectedLanguage],
               metadata |-> [requestedLanguages |-> langs,
                             selectedLanguage |-> selectedLanguage,
                             fallbackUsed |-> fallback, strictMode |-> strictMode]]
         ELSE [kind |-> "template", template |-> variants[selectedLanguage]]

\* the entries of DEFAULT_FIELD_VALUES for the names of the model; a name
\* is the sequence of its characters
Greeting == <<"g", "r", "e", "e", "t", "i", "n", "g">>

DEFAULT_FIELD_VALUES == [n \in {Greeting} |-> "Hello"]

\* a piece of a string: text without braces, a {{name}} token, or a value
\* put in place of a token
Text(t) == [txt |-> t]

Value(v) == [val |-> v]

isToken(piece) == has(piece, "ph")

\* new RegExp('{{' + placeholder + '}}', 'g') is a syntax error when the
\* parentheses of the placeholder are not balanced
RECURSIVE balanced(_, _, _)
balanced(name, i, open) ==
    IF i > Len(name) THEN open = 0
    ELSE IF name[i] = "(" THEN balanced(name, i + 1, open + 1)
    ELSE IF name[i] = ")" THEN open > 0 /\ balanced(name, i + 1, open - 1)
    ELSE balanced(name, i + 1, open)

compiles(placeholder) == balanced(placeholder, 1, 0)

\* the regular expression made of a placeholder of letters, dots and
\* balanced empty-free groups matches the token of this name: a dot stands
\* for any character, every letter for itself
regexMatches(placeholder, name) ==
    /\ Len(placeholder) = Len(name)
    /\ \A i \in 1..Len(name) :
          /\ placeholder[i] \notin {"(", ")"}
          /\ placeholder[i] = "." \/ placeholder[i] = name[i]

\* the values that are the text of a token: what is put in the string
\* when such a value is inserted is a {{name}} token like any other
TokenTexts == ("{{code}}" :> <<"c", "o", "d", "e">>)

inserted(v) == IF v \in DOMAIN TokenTexts THEN [ph |-> TokenTexts[v]] ELSE Value(v)

\* result.replace(regex, value) with the g flag: every match in the string
\* as it is now, values inserted earlier included
replaceAll(result, placeholder, v) ==
    [i \in 1..Len(result) |->
        IF isToken(result[i]) /\ regexMatches(placeholder, result[i].ph)
        THEN inserted(v) ELSE result[i]]

\* lines 391-397: the names of the tokens, each once, in the order of their
\* first occurrence
placeholdersOf(str) ==
    LET first(i) == isToken(str[i]) /\ \A j \in 1..(i - 1) : str[j] # str[i]
        at == SelectSeq([i \in 1..Len(str) |-> i], first)
    IN [k \in 1..Len(at) |-> str[at[k]].ph]

defined(obj, f) == f \in DOMAIN obj /\ obj[f] # Null

\* lines 403-421: placeholders.forEach
RECURSIVE eachPlaceholder(_, _, _, _, _, _)
eachPlaceholder(result, placeholders, i, data, mergedDefaults, removeUnreplacedPlaceholders) ==
    IF i > Len(placeholders) THEN [kind |-> "return", value |-> result]
    ELSE
      LET placeholder == placeholders[i]
          replaced    == defined(data, placeholder)
                         \/ placeholder \in DOMAIN mergedDefaults
                         \/ removeUnreplacedPlaceholders
          v == IF defined(data, placeholder) THEN data[placeholder]
               ELSE IF placeholder \in DOMAIN mergedDefaults
               THEN mergedDefaults[placeholder]
               ELSE ""
      IN IF ~replaced
         THEN eachPlaceholder(result, placeholders, i + 1, data, mergedDefaults,
                              removeUnreplacedPlaceholders)
         ELSE IF ~compiles(placeholder) THEN [kind |-> "throw"]
         ELSE eachPlaceholder(replaceAll(result, placeholder, v), placeholders, i + 1,
                              data, mergedDefaults, removeUnreplacedPlaceholders)

\* renderString(str, data, customDefaults, removeUnreplacedPlaceholders),
\* lines 385-425
renderString(str, data, customDefaults, removeUnreplacedPlaceholders) ==
    eachPlaceholder(str, placeholdersOf(str), 1, data,
                    spread(DEFAULT_FIELD_VALUES, customDefaults),
                    removeUnreplacedPlaceholders)

\* templateUtils.renderTemplate(template, data, options) for a string
\* template: lines 313-338 and the string branch of renderTemplateContent
renderTemplateContent(template, data, defaultValues, removeUnreplacedPlaceholders) ==
    IF template = <<>> THEN ReturnsNull
    ELSE renderString(template, data, defaultValues, removeUnreplacedPlaceholders)

Code == <<"c", "o", "d", "e">>

Dotted == <<"c", ".", "d", "e">>

Unclosed == <<"a", "(", "b">>

MaxPieces == 2

Pieces == {Text("hi")} \cup {[ph |-> n] : n \in {Greeting, Code, Dotted, Unclosed}}

TemplateStrings == UNION {[1..n -> Pieces] : n \in 0..MaxPieces}

RenderTemplate ==
    /\ query = NoCall
    /\ \E template \in TemplateStrings,
          data \in objects({Greeting, Code, Dotted, Unclosed}, {"v", "{{code}}"}),
          defaultValues \in objects({Code, Greeting}, {"d"}),
          removeUnreplacedPlaceholders \in BOOLEAN :
          query' = [op |-> "renderTemplate", template |-> template, data |-> data,
                    defaultValues |-> defaultValues,
                    removeUnreplacedPlaceholders |-> removeUnreplacedPlaceholders,
                    value |-> renderTemplateContent(template, data, defaultValues,
                                                    removeUnreplacedPlaceholders)]
    /\ UNCHANGED <<preferencesStore, templates, ret, sends, batch>>

\* the store of templateUtils with the variants of 'welcome' in these languages
utilsTemplates(langs) ==
    [type \in {"email", "sms"} |->
        [name \in {"welcome"} |-> [lang \in langs |-> content(type, name, lang)]]]

MaxLanguages == 2

LanguageArguments ==
    {[array |-> a] : a \in UNION {[1..n -> {"en", "es", "fr", "ES"}] : n \in 0..MaxLanguages}}
        \cup {[string |-> l] : l \in {"fr", "ES", ""}}

GotTemplate(langs, type, name, language, strictMode, includeMetadata, r) ==
    query' = [op |-> "getTemplate", languages |-> langs, type |-> type, name |-> name,
              language |-> language, strictMode |-> strictMode,
              includeMetadata |-> includeMetadata, value |-> r]

GetTemplate ==
    /\ query = NoCall
    /\ \E langs \in SUBSET {"en", "es", "fr"}, type \in {"email", "push"},
          name \in {"welcome", "other", ""}, language \in LanguageArguments,
          strictMode \in BOOLEAN, includeMetadata \in BOOLEAN :
          GotTemplate(langs, type, name, language, strictMode, includeMetadata,
                      getTemplateByPreference(utilsTemplates(langs), type, name, language,
                                              strictMode, includeMetadata))
    /\ UNCHANGED <<preferencesStore, templates, ret, sends, batch>>

NextTemplateUtils ==
    \/ RenderTemplate
    \/ GetTemplate
    \/ ResolveReturn

SpecTemplateUtils == Init /\ [][NextTemplateUtils]_vars

(***************************************************************************)
(* dispatcher.dispatchNotification, error-handler, notifications/emails.   *)
(* Modelled for the types 'email', 'EMAIL', an unsupported type and a      *)
(* missing one; a result object is modelled by the fields type, status,    *)
(* error, dispatched and the fields spread into it.                        *)
(***************************************************************************)
\* error-handler.js lines 120-138, 158-160: handleException
handleException(channel, error, options) ==
    spread([type |-> channel, status |-> "failed", error |-> error,
            dispatched |-> FALSE],
           options)

\* type ? type.toLowerCase() : null
normalizedTypeOf(type) ==
    IF type = "" THEN Null ELSE IF type = "EMAIL" THEN "email" ELSE type

\* a message of the model and its length
lengthOf(message) ==
    CASE message = "" -> 0
      [] message = "hi" -> 2
      [] message = "long" -> 10001

\* dispatcher.js lines 57-126: validateNotification, the error or Null
validateNotification(type, recipient, message) ==
    IF type = "" THEN "Notification type is required"
    ELSE IF recipient = <<>> THEN "Notification recipient is required"
    ELSE IF lengthOf(message) = 0 THEN "Notification message is required"
    ELSE IF lengthOf(message) > 10000 THEN "Message is too long (max 10,000 characters)"
    ELSE IF normalizedTypeOf(type) = "email"
    THEN (IF simpleEmailRegex(recipient) THEN Null ELSE "Invalid email address")
    ELSE "Notification type is not supported"

\* recipient.includes('error')
includesError(recipient) ==
    \E i \in 1..(Len(recipient) - 4) :
        SubSeq(recipient, i, i + 4) = <<"e", "r", "r", "o", "r">>

\* emails.js lines 107-166: sendEmail throws or returns its result
sendEmailThrows(recipient, options) ==
    includesError(recipient) \/ option(options, "simulateError")

sendEmail(recipient, options) ==
    IF option(options, "mockMode")
    THEN [type |-> "email", status |-> "sent", isMock |-> TRUE]
    ELSE [type |-> "email", status |-> "sent"]

\* error-handler.js lines 169-179 and emails.js line 203:
\* send = withErrorHandling(sendEmail, 'email')
send(recipient, options) ==
    IF sendEmailThrows(recipient, options)
    THEN handleException("email", "Simulated email sending failure", options)
    ELSE sendEmail(recipient, options)

\* the object require('./notifications') gives the dispatcher: the channel
\* modules by name, or the exports of notifications/index.js
ChannelModules == {"email", "sms", "push"}

IndexExports == {"types", "send", "registerHandler", "getTypes", "isSupported"}

\* dispatcher.js lines 139-216: dispatchNotification(notification), the
\* object its promise resolves to
dispatchNotification(notifications, notification) ==
    IF notification = [none |-> TRUE]
    THEN handleException("dispatcher", "Notification object is required", EmptyObject)
    ELSE
      LET type           == notification.type
          recipient      == notification.recipient
          options        == notification.options
          normalizedType == normalizedTypeOf(type)
          validationError == validateNotification(type, recipient, notification.message)
      IN IF validationError # Null
         THEN handleException(IF normalizedType = Null THEN "dispatcher" ELSE normalizedType,
                              validationError, [validationError |-> TRUE])
         ELSE IF normalizedType \notin notifications
         THEN handleException("dispatcher", "Notification type is not supported",
                              [unsupportedType |-> TRUE])
         ELSE spread(send(recipient, options), [dispatched |-> TRUE])

ErrorEmail == <<"e", "r", "r", "o", "r", "@", "b", ".", "c">>

Notifications ==
    {[none |-> TRUE]}
        \cup [type : {"email", "EMAIL", "fax", ""},
              recipient : {EmailA, ErrorEmail, BadEmail, Empty},
              message : {"", "hi", "long"},
              options : objects({"simulateError", "mockMode"}, {TRUE})]

DispatchNotification ==
    /\ query = NoCall
    /\ \E notifications \in {ChannelModules, IndexExports}, notification \in Notifications :
          query' = [op |-> "dispatchNotification", notifications |-> notifications,
                    notification |-> notification,
                    value |-> dispatchNotification(notifications, notification)]
    /\ UNCHANGED <<preferencesStore, templates, ret, sends, batch>>

NextDispatcher ==
    \/ DispatchNotification
    \/ ResolveReturn

SpecDispatcher == Init /\ [][NextDispatcher]_vars

(***************************************************************************)
(* notifications/emails.validateEmailInput and utilities/validators.       *)
(* An argument is a string, [str |-> characters], or null.                 *)
(***************************************************************************)
NullArgument == [null |-> TRUE]

isString(x) == has(x, "str")

isLetter(c) == c \in {"a", "b", "c", "o", "T", "B"}

\* [^<>()\[\]\\.,;:\s@"] on the characters of the model
isAtomCharacter(c) == isLetter(c) \/ c \in {"1", "-", "_"}

\* [a-zA-Z\-0-9]
isLabelCharacter(c) == isLetter(c) \/ c \in {"1", "-"}

\* dots only between non-empty runs of the other characters
dotsInside(s) ==
    /\ s # <<>>
    /\ s[1] # "."
    /\ s[Len(s)] # "."
    /\ \A i \in 1..(Len(s) - 1) : ~(s[i] = "." /\ s[i + 1] = ".")

\* ([^<>()...]+(\.[^<>()...]+)*), without the quoted form
isLocalPart(s) ==
    /\ dotsInside(s)
    /\ \A i \in 1..Len(s) : s[i] = "." \/ isAtomCharacter(s[i])

\* (([a-zA-Z\-0-9]+\.)+[a-zA-Z]{2,}), without the bracketed address form
isDomain(s) ==
    /\ dotsInside(s)
    /\ \A i \in 1..Len(s) : s[i] = "." \/ isLabelCharacter(s[i])
    /\ \E d \in 1..Len(s) :
          /\ s[d] = "."
          /\ Len(s) - d >= 2
          /\ \A i \in (d + 1)..Len(s) : isLetter(s[i])

\* validators.js lines 15-23: isValidEmail(email)
isValidEmail(email) ==
    /\ isString(email)
    /\ email.str # <<>>
    /\ LET t == trim(email.str)
       IN \E i \in 1..Len(t) :
             /\ t[i] = "@"
             /\ isLocalPart(SubSeq(t, 1, i - 1))
             /\ isDomain(SubSeq(t, i + 1, Len(t)))

\* validators.js lines 31-34: isNotEmpty(str)
isNotEmpty(str) == isString(str) /\ Len(trim(str.str)) > 0

\* !x for a string or null
falsy(x) == ~isString(x) \/ x.str = <<>>

\* validateEmailInput that stops at the first failed check
validateEmailInput_firstErrorOnly(to, subject, body) ==
    LET errors ==
            IF falsy(to) THEN <<"Recipient email address is required">>
            ELSE IF ~isValidEmail(to) THEN <<"Invalid recipient email format">>
            ELSE IF ~isNotEmpty(subject) THEN <<"Email subject cannot be empty">>
            ELSE IF falsy(body) THEN <<"Email body cannot be empty">>
            ELSE <<>>
    IN [isValid |-> Len(errors) = 0, errors |-> errors]

\* emails.js lines 65-89: validateEmailInput(to, subject, body)
validateEmailInput(to, subject, body) ==
    LET errors ==
            (IF falsy(to) THEN <<"Recipient email address is required">>
             ELSE IF ~isValidEmail(to) THEN <<"Invalid recipient email format">>
             ELSE <<>>)
            \o (IF ~isNotEmpty(subject) THEN <<"Email subject cannot be empty">> ELSE <<>>)
            \o (IF falsy(body) THEN <<"Email body cannot be empty">> ELSE <<>>)
    IN [isValid |-> Len(errors) = 0, errors |-> errors]

String(s) == [str |-> s]

EmailRecipients ==
    {NullArgument} \cup
    {String(s) : s \in {<<>>,
                        <<"a", "@", "b", ".", "c", "o">>,
                        <<" ", "a", "@", "b", ".", "c", "o", " ">>,
                        <<"a", ".", "b", "@", "c", ".", "c", "o">>,
                        <<"a", "_", "1", "@", "b", "-", "1", ".", "a", ".", "c", "o">>,
                        <<"a", "@", "b", ".", "c">>,
                        <<"a", "@", "b", ".", "c", "1">>,
                        <<"a", ".", ".", "b", "@", "c", ".", "c", "o">>,
                        <<"a", " ", "b", "@", "c", ".", "c", "o">>,
                        <<"a", "@", "b">>,
                        <<"a", "b">>,
                        <<"@", "b", ".", "c", "o">>}}

Subjects == {NullArgument} \cup {String(s) : s \in {<<>>, <<" ">>, <<"T">>, <<" ", "T", " ">>}}

Bodies == {NullArgument} \cup {String(s) : s \in {<<>>, <<" ">>, <<"B">>}}

ValidateEmailInput ==
    /\ query = NoCall
    /\ \E to \in EmailRecipients, subject \in Subjects, body \in Bodies :
          query' = [op |-> "validateEmailInput", to |-> to, subject |-> subject,
                    body |-> body, value |-> validateEmailInput(to, subject, body)]
    /\ UNCHANGED <<preferencesStore, templates, ret, sends, batch>>

NextEmails ==
    \/ ValidateEmailInput
    \/ ResolveReturn

SpecEmails == Init /\ [][NextEmails]_vars

(***************************************************************************)
(* Properties of the planned channels and of the preference store.         *)
(***************************************************************************)
\* the channels of the list whose template resolves in lang or in 'en'
resolvable(channels, notificationType, lang) ==
    SelectSeq(channels, LAMBDA c : templateExists(templates, c, notificationType, lang))

\* the record the call planned from: the one stored for its recipient
plannedFrom == preferencesStore[ret.email]

\* C21: with combinedOnly = true, requireAllChannels = false and forceSend =
\* false, for a recipient with one or two base channels the channels planned
\* are the base channels whose template resolves in the preferred language
\* or in 'en', and no sender is invoked on a base channel whose template
\* does not resolve.
C21_UnresolvableChannelsDropped ==
    (/\ wasDispatched
     /\ hasRecord(ret.email)
     /\ option(ret.options, "combinedOnly")
     /\ ~option(ret.options, "requireAllChannels")
     /\ ~option(ret.options, "forceSend")
     /\ Len(baseChannels(plannedFrom)) > 0
     /\ has(ret.value, "channels")) =>
        /\ ret.value.channels
               = resolvable(baseChannels(plannedFrom), ret.notificationType,
                            preferredLanguageOf(plannedFrom))
        /\ \A k \in 1..Len(sends) :
               templateExists(templates, sends[k], ret.notificationType,
                              preferredLanguageOf(plannedFrom))

\* the call found a record marked deleted for its recipient
recipientDeleted ==
    /\ exists(ret.prior, ret.email)
    /\ ret.prior[ret.email].isDeleted = TRUE

\* the same call made when the recipient has no record at all
withoutRecord ==
    sendNotificationByPreference(removeUserPreferences(ret.prior, ret.email).store,
                                 templates, ret.email, ret.notificationType,
                                 ret.options, ret.outcomes)

\* C23: a record marked isDeleted is never a channel source.  In every state
\* getUserPreferences returns no record with isDeleted = true, and a call of
\* sendNotificationByPreference that finds a deleted record for its recipient
\* leaves fresh defaults in the store and returns what it returns for a
\* recipient with no record: its channels come from the defaults.
C23_DeletedNeverSource ==
    /\ \A id \in DOMAIN preferencesStore :
          getUserPreferences(preferencesStore, id).found
              => getUserPreferences(preferencesStore, id).value.isDeleted = FALSE
    /\ (wasDispatched /\ recipientDeleted) =>
          /\ preferencesStore[ret.email] = createDefaultPreferences(EmptyObject)
          /\ ret.value = withoutRecord.result
          /\ sends = withoutRecord.sends

\* a recipient whose deleted record enabled sms only gets the email of the
\* defaults
C23_Witness ==
    /\ wasDispatched
    /\ recipientDeleted
    /\ ret.prior[ret.email].smsEnabled = TRUE
    /\ ret.prior[ret.email].emailEnabled = FALSE
    /\ hasPhone(ret.prior[ret.email])
    /\ ~option(ret.options, "forceSend")
    /\ ret.value.channels = <<"email">>
    /\ sends = <<"email">>

\* the two calls planned the same channels
samePlan(first, second) ==
    /\ has(first, "channels") <=> has(second, "channels")
    /\ has(first, "channels") => first.channels = second.channels

isTwice == ret.op = "sendNotificationByPreference twice"

\* C26: planning is deterministic and idempotent: two calls in a row of
\* sendNotificationByPreference for the same recipient, type and options plan
\* the same channel list, also when the first call created the record of a
\* first-time or deleted recipient, and the second call leaves the store as
\* the first left it.
C26_PlanningIdempotent ==
    isTwice =>
        /\ samePlan(ret.first, ret.second)
        /\ preferencesStore = ret.between

\* the two calls for a recipient whose deleted record enabled sms both
\* planned the email of the defaults
C26_Witness ==
    /\ isTwice
    /\ exists(ret.prior, ret.email)
    /\ ret.prior[ret.email].isDeleted = TRUE
    /\ ret.prior[ret.email].smsEnabled = TRUE
    /\ hasPhone(ret.prior[ret.email])
    /\ ~option(ret.options, "forceSend")
    /\ ret.first.channels = <<"email">>
    /\ ret.second.channels = <<"email">>
    /\ ret.first.success

(***************************************************************************)
(* Properties of first-time recipients, checked under SpecFirstTime.       *)
(***************************************************************************)
isQuery(op) == query # NoCall /\ query.op = op

live(store, id) == exists(store, id) /\ store[id].isDeleted # TRUE

\* C24: a well-formed recipient with no record is never an error: the first
\* getUserPreferences call stores and returns the defaults (emailEnabled
\* true, smsEnabled false), a later call returns the stored record and
\* leaves the store alone, and a parallel batch of n well-formed recipients
\* that reached execution returns processedCount = n and has stored the
\* defaults for those that had no record.
C24_FirstTimeIsDefault ==
    /\ (isQuery("getUserPreferences") /\ isValidUserId(query.userId)) =>
          /\ query.value.found
          /\ ~exists(query.prior, query.userId) =>
                /\ query.value.value = createDefaultPreferences(EmptyObject)
                /\ query.value.value.emailEnabled = TRUE
                /\ query.value.value.smsEnabled = FALSE
                /\ exists(query.value.store, query.userId)
                /\ query.value.store[query.userId] = query.value.value
          /\ live(query.prior, query.userId) =>
                /\ query.value.value = query.prior[query.userId]
                /\ query.value.store = query.prior
    /\ (isBatch /\ ret.phase = "execution" /\ isParallel(ret.options)) =>
          /\ ret.value.processedCount = Len(ret.emails)
          /\ \A i \in 1..Len(ret.emails) :
                ~exists(ret.prior, ret.emails[i]) =>
                    /\ hasRecord(ret.emails[i])
                    /\ preferencesStore[ret.emails[i]]
                           = createDefaultPreferences(EmptyObject)
                    /\ ret.value.results[i].status # "skipped"

\* a parallel batch of a first-time recipient and a known one returned with
\* both processed and the first-time recipient's email sent
C24_Witness ==
    /\ isBatch
    /\ ret.phase = "execution"
    /\ isParallel(ret.options)
    /\ ret.emails = <<EmailN, EmailA>>
    /\ ~exists(ret.prior, EmailN)
    /\ ret.value.processedCount = 2
    /\ ret.value.results[1].status = "success"

\* the records of the live recipients of prior are those of the store
liveUntouched(prior) ==
    \A id \in DOMAIN prior : live(prior, id) => preferencesStore[id] = prior[id]

\* C25: the dispatch core never writes preference state: a recipient's
\* record that exists and is not deleted is the same before, during and
\* after any call of sendNotificationByPreference or sendBatchNotifications,
\* a single dispatch reads the preferences once, and a batch reads them once
\* for each recipient it dispatched.
C25_DispatchNeverWrites ==
    /\ isCall =>
          /\ liveUntouched(ret.prior)
          /\ live(ret.prior, ret.email) => preferencesStore = ret.prior
          /\ ret.read = TRUE
    /\ isBatch =>
          /\ liveUntouched(ret.prior)
          /\ ret.phase = "execution" => ret.lookups = Len(ret.value.results)
    /\ batch # Idle => liveUntouched(batch.prior)

\* a call for a recipient with both channels enabled sent on both and left
\* the store as it was
C25_Witness ==
    /\ isCall
    /\ ret.email = EmailA
    /\ live(ret.prior, EmailA)
    /\ ret.prior[EmailA].smsEnabled = TRUE
    /\ sends = <<"email", "sms">>
    /\ ret.value.success
    /\ preferencesStore = ret.prior

(***************************************************************************)
(* Properties of the personalization data, checked under SpecData.         *)
(***************************************************************************)
\* C22: the data handed to rendering and to the senders gives the data of
\* the call precedence over the fields of the user record and over the
\* defaults: every key of the call's data has the call's value in it.
C22_DynamicDataWins ==
    (isQuery("templateData") \/ isQuery("senderData")) =>
        \A k \in DOMAIN query.dynamicData :
            query.value[k] = query.dynamicData[k]

(***************************************************************************)
(* Properties of templateUtils, checked under SpecTemplateUtils.           *)
(***************************************************************************)
\* what the token of this name is to become
expected(name) ==
    IF defined(query.data, name) THEN Value(query.data[name])
    ELSE IF name \in DOMAIN query.defaultValues THEN Value(query.defaultValues[name])
    ELSE IF name \in DOMAIN DEFAULT_FIELD_VALUES THEN Value(DEFAULT_FIELD_VALUES[name])
    ELSE IF query.removeUnreplacedPlaceholders THEN Value("")
    ELSE [ph |-> name]

\* C27: renderTemplate never throws, whatever characters a token name has,
\* and in the string it returns every {{name}} token is replaced by the
\* value of name in data, else by its custom default, else by its global
\* default, else removed when removeUnreplacedPlaceholders is true and left
\* as it is when it is false; the text around the tokens is unchanged.
C27_TokensReplaced ==
    (isQuery("renderTemplate") /\ query.template # <<>>) =>
        /\ query.value.kind = "return"
        /\ \A i \in 1..Len(query.template) :
              query.value.value[i]
                  = IF isToken(query.template[i])
                    THEN expected(query.template[i].ph)
                    ELSE query.template[i]

\* the variant of the call's template in this language
variantIn(lang) == content(query.type, query.name, lang)

returned(lang) ==
    /\ query.value.kind \in {"template", "withMetadata"}
    /\ query.value.template = variantIn(lang)
    /\ query.value.kind = "withMetadata" =>
          query.value.metadata.selectedLanguage = lang

\* the first requested language that has a variant, 0 when none has
firstRequested ==
    firstAvailable([l \in query.languages |-> TRUE],
                   normalizedLanguages(query.language), 1)

known == query.type = "email" /\ query.name = "welcome"

\* C28: with strictMode = true getTemplate returns the variant of the first
\* requested language that has one and null when none has, never the 'en'
\* variant as a fallback; with strictMode = false and no requested language
\* available it returns the 'en' variant when there is one, with fallbackUsed
\* = true and selectedLanguage = 'en' in the metadata, and null when there
\* is none.
C28_StrictNeverFallsBack ==
    (isQuery("getTemplate") /\ known) =>
        /\ firstRequested > 0 =>
              /\ returned(normalizedLanguages(query.language)[firstRequested])
              /\ query.value.kind = "withMetadata" =>
                    query.value.metadata.fallbackUsed = FALSE
        /\ (firstRequested = 0 /\ query.strictMode) => query.value = ReturnsNull
        /\ (firstRequested = 0 /\ ~query.strictMode) =>
              IF "en" \in query.languages
              THEN /\ returned("en")
                   /\ query.value.kind = "withMetadata" =>
                         query.value.metadata.fallbackUsed = TRUE
              ELSE query.value = ReturnsNull

\* a strict call for Spanish and French when only the English variant
\* exists returned null
C28_Witness ==
    /\ isQuery("getTemplate")
    /\ known
    /\ query.strictMode
    /\ query.languages = {"en"}
    /\ query.language = [array |-> <<"ES", "fr">>]
    /\ query.value = ReturnsNull

(***************************************************************************)
(* Properties of dispatchNotification, checked under SpecDispatcher.       *)
(***************************************************************************)
\* the sender was called and did not throw
senderSucceeded ==
    /\ query.notification # [none |-> TRUE]
    /\ validateNotification(query.notification.type, query.notification.recipient,
                            query.notification.message) = Null
    /\ normalizedTypeOf(query.notification.type) \in query.notifications
    /\ ~sendEmailThrows(query.notification.recipient, query.notification.options)

\* C29: every failure dispatchNotification reports (invalid notification,
\* unsupported type, error raised by the channel sender) is an object with
\* status = 'failed' and dispatched = false; dispatched = true is returned
\* only when the channel sender succeeded, so status = 'failed' and
\* dispatched = true never occur together.
C29_FailedNeverDispatched ==
    isQuery("dispatchNotification") =>
        /\ ~senderSucceeded =>
              (query.value.status = "failed" /\ query.value.dispatched = FALSE)
        /\ query.value.dispatched = TRUE => senderSucceeded
        /\ ~(query.value.status = "failed" /\ query.value.dispatched = TRUE)

(***************************************************************************)
(* Properties of validateEmailInput, checked under SpecEmails.             *)
(***************************************************************************)
\* the number of messages of the list that are among these
messagesAmong(errors, messages) ==
    Cardinality({i \in 1..Len(errors) : errors[i] \in messages})

oneIfFailed(passed, messages) ==
    messagesAmong(query.value.errors, messages) = (IF passed THEN 0 ELSE 1)

C33_ProcessedCountIsTotal ==
    isBatch =>
        /\ ret.value.processedCount
               = ret.value.statusCounts.success + ret.value.statusCounts.skipped
                 + ret.value.statusCounts.failed
        /\ ret.value.processedCount = Len(ret.value.results)

\* C32: in sendBatchNotifications every recipient whose address is not a
\* well-formed email address, one with an '@' that the store's id check
\* rejects included, is classified failed, never skipped or success, and
\* the call creates no preference record for it.
C32_MalformedAlwaysFailed ==
    (isBatch /\ ret.phase = "execution") =>
        \A i \in 1..Len(ret.value.results) :
            ~simpleEmailRegex(ret.emails[i]) =>
                /\ ret.value.results[i].status = "failed"
                /\ exists(preferencesStore, ret.emails[i])
                       => exists(ret.prior, ret.emails[i])

(* Further properties of sendNotificationByPreference, checked under Spec. *)
\* the call ran its channel loop: the object returned has a results map
ranLoop == wasDispatched /\ has(ret.value, "results")

channelSet(r) == {r.channels[i] : i \in 1..Len(r.channels)}

\* C34: whenever sendNotificationByPreference runs its channel loop, the
\* results map returned holds one ChannelResult for each planned channel and
\* none for any other channel, also when an earlier channel failed on its
\* template lookup, its address check or its send.
C34_OneResultPerChannel ==
    ranLoop =>
        /\ DOMAIN ret.value.results = channelSet(ret.value)
        /\ Cardinality(channelSet(ret.value)) = Len(ret.value.channels)
        /\ \A c \in DOMAIN ret.value.results : has(ret.value.results[c], "success")

\* both channels were planned, the email channel failed and the sms channel
\* has its result all the same
C34_Witness ==
    /\ ranLoop
    /\ ret.value.channels = <<"email", "sms">>
    /\ ~ret.value.results["email"].success
    /\ ret.value.results["sms"].success

\* the call was made with requireAllChannels and without forceSend
requiresAll ==
    /\ wasDispatched
    /\ option(ret.options, "requireAllChannels")
    /\ ~option(ret.options, "forceSend")

\* the record the call read for its recipient
readRecord == getUserPreferences(ret.prior, ret.email)

bothResolve(userPrefs) ==
    /\ templateExists(templates, "email", ret.notificationType, preferredLanguageOf(userPrefs))
    /\ templateExists(templates, "sms", ret.notificationType, preferredLanguageOf(userPrefs))

\* C35: with requireAllChannels = true and forceSend = false a sender is
\* invoked only if the record enables both email and sms and both templates
\* resolve; a recipient with exactly one enabled channel gets a failure
\* result and no send, also when that channel's template exists.
C35_RequireAllNeedsBoth ==
    requiresAll =>
        /\ sends # <<>> =>
               /\ readRecord.found
               /\ readRecord.value.emailEnabled /\ readRecord.value.smsEnabled
               /\ bothResolve(readRecord.value)
        /\ (readRecord.found
            /\ readRecord.value.emailEnabled # readRecord.value.smsEnabled) =>
               /\ ~ret.value.success
               /\ sends = <<>>
               /\ ~has(ret.value, "results")

\* one enabled channel whose template exists, and the call failed without a send
C35_Witness ==
    /\ requiresAll
    /\ readRecord.found
    /\ readRecord.value.emailEnabled /\ ~readRecord.value.smsEnabled
    /\ templateExists(templates, "email", ret.notificationType,
                      preferredLanguageOf(readRecord.value))
    /\ ~ret.value.success
    /\ sends = <<>>

\* both channels enabled, both templates there, and a sender was invoked
C35_WitnessSent ==
    requiresAll /\ sends = <<"email", "sms">>

\* C36: the object sendNotificationByPreference returns carries
\* preferencesOverridden = true only when forceSend was set and the record
\* read enables no channel.
C36_OverriddenOnlyWhenOverridden ==
    (wasDispatched /\ truthy(ret.value, "preferencesOverridden")) =>
        /\ option(ret.options, "forceSend")
        /\ readRecord.found
        /\ ~readRecord.value.emailEnabled
        /\ ~readRecord.value.smsEnabled

(***************************************************************************)
(* userPreferences.updateExistingUserPreferences (part_006 lines 361-459). *)
(* The preferences argument is null, a string or an object,                *)
(* [object |-> fields]; a field value is a boolean [bool |-> b], a string  *)
(* [str |-> characters] or a number [num |-> n].                           *)
(***************************************************************************)
isObjectArgument(x) == has(x, "object")

isBoolean(x) == has(x, "bool")

in(preferences, f) == has(preferences.object, f)

\* /^[a-zA-Z-]{2,5}$/.test(s)
isLanguageCode(s) ==
    /\ Len(s) >= 2
    /\ Len(s) <= 5
    /\ \A i \in 1..Len(s) :
           s[i] \in {"e", "f", "r", "s", "n", "M", "X", "-"}

\* the error object returned
errorObject(store, text) == [error |-> text, isError |-> TRUE, store |-> store]

\* lines 438-447: const updates = {}, filled from the argument
validatedUpdates(preferences) ==
    [f \in {g \in {"emailEnabled", "smsEnabled"} : in(preferences, g)} |->
        preferences.object[f].bool]

\* updateExistingUserPreferences without the check that the user exists
updateExistingUserPreferences_createsUnknown(store, userId, preferences, now) ==
    IF ~isValidUserId(userId) THEN errorObject(store, "Invalid user ID")
    ELSE IF ~isObjectArgument(preferences)
    THEN errorObject(store, "Preferences must be a valid object")
    ELSE IF in(preferences, "emailEnabled") /\ ~isBoolean(preferences.object.emailEnabled)
    THEN errorObject(store, "Invalid emailEnabled value. Must be a boolean.")
    ELSE IF in(preferences, "smsEnabled") /\ ~isBoolean(preferences.object.smsEnabled)
    THEN errorObject(store, "Invalid smsEnabled value. Must be a boolean.")
    ELSE IF ~in(preferences, "emailEnabled") /\ ~in(preferences, "smsEnabled")
    THEN errorObject(store, "No preference fields provided. Must include emailEnabled and/or smsEnabled.")
    ELSE
      LET old == IF exists(store, userId) THEN store[userId] ELSE EmptyObject
          updatedPrefs == spread(spread(old, validatedUpdates(preferences)),
                                 [updatedAt |-> now])
      IN [value |-> updatedPrefs, isError |-> FALSE,
          store |-> [u \in (DOMAIN store) \cup {userId} |->
                        IF u = userId THEN updatedPrefs ELSE store[u]]]

\* updateExistingUserPreferences(userId, preferences); now is what
\* new Date().toISOString() gives
updateExistingUserPreferences(store, userId, preferences, now) ==
    IF ~isValidUserId(userId) THEN errorObject(store, "Invalid user ID")
    ELSE IF ~isObjectArgument(preferences)
    THEN errorObject(store, "Preferences must be a valid object")
    ELSE IF ~exists(store, userId)
    THEN errorObject(store, "User not found in preferences store")
    ELSE IF in(preferences, "emailEnabled") /\ ~isBoolean(preferences.object.emailEnabled)
    THEN errorObject(store, "Invalid emailEnabled value. Must be a boolean.")
    ELSE IF in(preferences, "smsEnabled") /\ ~isBoolean(preferences.object.smsEnabled)
    THEN errorObject(store, "Invalid smsEnabled value. Must be a boolean.")
    ELSE IF ~in(preferences, "emailEnabled") /\ ~in(preferences, "smsEnabled")
    THEN errorObject(store, "No preference fields provided. Must include emailEnabled and/or smsEnabled.")
    ELSE IF in(preferences, "preferredLanguage")
            /\ ~isString(preferences.object.preferredLanguage)
    THEN errorObject(store, "preferredLanguage must be a string")
    ELSE IF in(preferences, "preferredLanguage")
            /\ ~isLanguageCode(preferences.object.preferredLanguage.str)
    THEN errorObject(store, "Invalid language code format")
    ELSE IF ~in(preferences, "emailEnabled") /\ ~in(preferences, "smsEnabled")
            /\ ~in(preferences, "preferredLanguage")
    THEN errorObject(store, "No valid preference fields provided. Must include emailEnabled, smsEnabled, and/or preferredLanguage.")
    ELSE
      LET updatedPrefs == spread(spread(store[userId], validatedUpdates(preferences)),
                                 [updatedAt |-> now])
      IN [value |-> updatedPrefs, isError |-> FALSE,
          store |-> [u \in DOMAIN store |->
                        IF u = userId THEN updatedPrefs ELSE store[u]]]

Boolean(b) == [bool |-> b]

Number(n) == [num |-> n]

\* the values a field of the argument takes
FlagValues == {Boolean(TRUE), Boolean(FALSE), String(<<"y", "e", "s">>)}

LanguageValues == {String(<<"f", "r">>), String(<<"e", "s", "-", "M", "X">>),
                   String(<<"f">>), Number(1)}

objectsOver(fields) ==
    {[object |-> o] : o \in [fields -> FlagValues \cup LanguageValues]}

\* the objects passed: any subset of the three fields, flags with flag
\* values and the language with language values
PreferenceObjects ==
    {p \in UNION {objectsOver(fs) :
                     fs \in SUBSET {"emailEnabled", "smsEnabled", "preferredLanguage"}} :
        /\ \A f \in {"emailEnabled", "smsEnabled"} :
               in(p, f) => p.object[f] \in FlagValues
        /\ in(p, "preferredLanguage") => p.object.preferredLanguage \in LanguageValues}

PreferenceArguments ==
    {NullArgument, String(<<"o", "n">>)} \cup PreferenceObjects

ExistingUserIds == {EmailA, EmailN, UserId, BadEmail, Empty}

Now == "2026-01-01T00:00:00.000Z"

Updated(userId, preferences, r) ==
    /\ preferencesStore' = r.store
    /\ query' = [op |-> "updateExistingUserPreferences", userId |-> userId,
                 preferences |-> preferences, prior |-> preferencesStore,
                 isError |-> r.isError]

UpdateExistingUserPreferences ==
    /\ query = NoCall
    /\ \E userId \in ExistingUserIds, preferences \in PreferenceArguments :
          Updated(userId, preferences,
                  updateExistingUserPreferences(preferencesStore, userId,
                                                preferences, Now))
    /\ UNCHANGED <<templates, ret, sends, batch>>

\* a record is removed between two updates
RemoveUserPreferences ==
    /\ query = NoCall
    /\ \E userId \in {EmailO, UserId} :
          /\ exists(preferencesStore, userId)
          /\ preferencesStore' = removeUserPreferences(preferencesStore, userId).store
    /\ UNCHANGED <<templates, ret, sends, batch, query>>

NextExisting ==
    \/ UpdateExistingUserPreferences
    \/ RemoveUserPreferences
    \/ ResolveReturn

SpecExisting == InitBatch /\ [][NextExisting]_vars

isUpdate == isQuery("updateExistingUserPreferences")

\* the argument of the call passes every check the claim names
acceptable(preferences) ==
    /\ isObjectArgument(preferences)
    /\ \A f \in {"emailEnabled", "smsEnabled"} :
           in(preferences, f) => isBoolean(preferences.object[f])
    /\ in(preferences, "preferredLanguage") =>
           /\ isString(preferences.object.preferredLanguage)
           /\ isLanguageCode(preferences.object.preferredLanguage.str)

\* the fields of a record other than the ones an update may write
frame(record) ==
    [f \in (DOMAIN record) \ {"emailEnabled", "smsEnabled", "preferredLanguage",
                               "updatedAt"} |-> record[f]]

\* C37: updateExistingUserPreferences never creates a record: for an invalid
\* user id, an unknown user, a non-object argument, a non-boolean
\* emailEnabled/smsEnabled or an invalid preferredLanguage it returns an
\* error object and leaves the whole store unchanged; on success only that
\* user's validated fields and updatedAt change and every other user's
\* record is untouched.
C37_UpdateExistingFrame ==
    isUpdate =>
        /\ DOMAIN preferencesStore = DOMAIN query.prior
        /\ (\/ ~isValidUserId(query.userId)
            \/ ~exists(query.prior, query.userId)
            \/ ~acceptable(query.preferences))
           => (query.isError /\ preferencesStore = query.prior)
        /\ query.isError => preferencesStore = query.prior
        /\ ~query.isError =>
               /\ \A u \in DOMAIN query.prior :
                      u # query.userId => preferencesStore[u] = query.prior[u]
               /\ frame(preferencesStore[query.userId])
                      = frame(query.prior[query.userId])
               /\ preferencesStore[query.userId].updatedAt = Now
               /\ \A f \in {"emailEnabled", "smsEnabled"} :
                      preferencesStore[query.userId][f]
                          = IF in(query.preferences, f)
                            THEN query.preferences.object[f].bool
                            ELSE query.prior[query.userId][f]

\* an update of a known user succeeded and changed a flag
C37_Witness ==
    /\ isUpdate
    /\ ~query.isError
    /\ preferencesStore[query.userId].emailEnabled
           # query.prior[query.userId].emailEnabled

\* a well-formed id without a record was given acceptable fields: no record
C37_WitnessUnknown ==
    /\ isUpdate
    /\ isValidUserId(query.userId)
    /\ ~exists(query.prior, query.userId)
    /\ acceptable(query.preferences)
    /\ in(query.preferences, "emailEnabled")
    /\ query.isError

RECURSIVE join(_)
join(s) == IF s = <<>> THEN "" ELSE s[1] \o join(Tail(s))

\* C38: updateExistingUserPreferences accepts a well-formed
\* preferredLanguage, also as the only field supplied, and after the call
\* the stored preferredLanguage of the user equals the value supplied.
C38_LanguageAccepted ==
    (/\ isUpdate
     /\ isValidUserId(query.userId)
     /\ exists(query.prior, query.userId)
     /\ acceptable(query.preferences)
     /\ in(query.preferences, "preferredLanguage"))
    => /\ ~query.isError
       /\ preferencesStore[query.userId].preferredLanguage
              = join(query.preferences.object.preferredLanguage.str)

(* A further property of templateUtils, checked under SpecTemplateUtils. *)
plainNames(str) ==
    \A i \in 1..Len(str) : isToken(str[i]) => str[i].ph \in {Greeting, Code}

\* C39: renderString is single-pass: a value put in place of one token is
\* inserted as it is and not scanned again, so a data value that is itself
\* the text of a token {{other}} stands in the output unexpanded.
C39_ValuesNotRescanned ==
    (/\ isQuery("renderTemplate")
     /\ query.template # <<>>
     /\ plainNames(query.template)
     /\ query.value.kind = "return")
    => \A i \in 1..Len(query.template) :
          (/\ isToken(query.template[i])
           /\ defined(query.data, query.template[i].ph)
           /\ query.data[query.template[i].ph] \in DOMAIN TokenTexts)
          => query.value.value[i]
                 = [ph |-> TokenTexts[query.data[query.template[i].ph]]]

(***************************************************************************)
(* templateManager.addTemplate and getAvailableTemplates (dispatcher.js),  *)
(* checked under SpecTemplates.                                            *)
(***************************************************************************)
\* getAvailableTemplates(type): Object.keys(templates[type]), as a set
getAvailableTemplates(tmpl, type0) ==
    IF type0 = "" THEN {}
    ELSE IF toLowerCase(type0) \notin DOMAIN tmpl THEN {}
    ELSE DOMAIN tmpl[toLowerCase(type0)]

SubjectOnly == [subject |-> <<Lit("subject", "promo", "en")>>]

TemplateArguments ==
    {NoTemplate, emailContent("promo", "en"), smsContent("promo", "en"), SubjectOnly}

TemplateTypes == {"email", "sms", ""}

TemplateNames == {"welcome", "promo", "Promo", ""}

TemplateLanguages == {"en", "EN", "e", ""}

Added(type, templateName, language, template, r) ==
    /\ templates' = r.store
    /\ query' = [op |-> "addTemplate", type |-> type, templateName |-> templateName,
                 language |-> language, template |-> template,
                 prior |-> templates, value |-> r.ok]

AddTemplateCall ==
    /\ query = NoCall
    /\ \E type \in TemplateTypes, templateName \in TemplateNames,
          language \in TemplateLanguages, template \in TemplateArguments :
          Added(type, templateName, language, template,
                addTemplate(templates, type, templateName, language, template))
    /\ UNCHANGED <<preferencesStore, ret, sends, batch>>

NextTemplates ==
    \/ AddTemplateCall
    \/ ResolveReturn

SpecTemplates == Init /\ [][NextTemplates]_vars

\* C40: an addTemplate call that returns false leaves the template store as
\* it was: getAvailableTemplates and getTemplate answer after the call as
\* they did before it, for every type, name and language.
C40_FailedAddChangesNothing ==
    (isQuery("addTemplate") /\ ~query.value) =>
        /\ \A type \in TemplateTypes :
               getAvailableTemplates(templates, type)
                   = getAvailableTemplates(query.prior, type)
        /\ \A type \in {"email", "sms"}, name \in {"welcome", "promo"},
              lang \in {"en", "es", "e"} :
               getTemplate(templates, type, name, lang)
                   = getTemplate(query.prior, type, name, lang)

(***************************************************************************)
(* SpecHang: sendBatchNotifications in sequential mode with senders that   *)
(* complete, throw, or return a promise that never settles.  The steps of  *)
(* the batch are taken as long as they are enabled (the event loop runs    *)
(* the continuation of every await that resolved); nothing is assumed of   *)
(* the senders.  query keeps the recipients whose sender never completed.  *)
(***************************************************************************)
MaxHang == 3

HangInputs == UNION {[1..n -> {EmailA, EmailO, BadEmail}] : n \in 1..MaxHang}

HangOptions == [failFast : BOOLEAN, parallelSend : {FALSE}]

HangSenderOutcomes == [{"email", "sms"} -> {Dispatched, Pending, Throws}]

NoneHung == [op |-> "senders", pending |-> {}]

HangStart ==
    /\ ret = NoCall
    /\ batch = Idle
    /\ \E emails \in HangInputs, notificationType \in ParallelTypes,
          options \in HangOptions :
          Started(emails, notificationType, options,
                  startBatch(templates, emails, notificationType, options))
    /\ query' = NoneHung
    /\ UNCHANGED <<preferencesStore, templates, sends>>

\* the recipients whose sender has returned a promise that never settles
hungAfter(pending, i, outcomes, sent) ==
    IF \E k \in 1..Len(sent) : outcomes[sent[k]] = Pending
    THEN pending \cup {i} ELSE pending

HangProcessed(outcomes, p) ==
    /\ Processed(outcomes, p)
    /\ query' = [query EXCEPT !.pending = hungAfter(@, batch.i, outcomes, p.sends)]

\* the next recipient is processed: the senders are called, not awaited,
\* and the entry is pushed
HangStep ==
    /\ batch.pc = "loop"
    /\ batch.i <= Len(batch.emails)
    /\ \E outcomes \in HangSenderOutcomes :
          \E p \in {processRecipient(preferencesStore, templates,
                                     batch.emails[batch.i], batch.notificationType,
                                     batch.options, outcomes)} :
              HangProcessed(outcomes, p)
    /\ UNCHANGED <<templates, ret>>

NextHang ==
    \/ HangStart
    \/ HangStep
    \/ BatchFinish
    \/ Return

\* HangStep is enabled exactly when the loop has a recipient left
stepEnabled == batch.pc = "loop" /\ batch.i <= Len(batch.emails)

\* WF_vars(HangStep), with ENABLED <<HangStep>>_vars written as stepEnabled
stepFair == []<>(~stepEnabled) \/ []<><<HangStep>>_vars

SpecHang ==
    /\ InitParallel
    /\ [][NextHang]_vars
    /\ stepFair
    /\ WF_vars(BatchFinish)

inBatch == batch.pc \in {"loop", "break"}

\* C31: in sequential batch mode, once the sender called for recipient k
\* never completes, no recipient after k is processed and
\* sendBatchNotifications does not return.
C31_HungSenderHangsBatch ==
    isQuery("senders") =>
        \A k \in query.pending :
            /\ inBatch => Len(batch.results) <= k
            /\ ~isBatch

\* the other half of C31: when every sender call completes, a batch that
\* was started returns
C31_BatchReturns == inBatch ~> isBatch

\* no recipient is processed twice: the entries are those of a prefix of
\* the input, in order
C31_AtMostOnce ==
    inBatch =>
        /\ Len(batch.results) <= Len(batch.emails)
        /\ \A i \in 1..Len(batch.results) :
               batch.results[i].email = emailOrInvalid(batch.emails[i])

====
